---- MODULE Spec2Model ----
(***************************************************************************)
(* Verification model of the Pixiv download pipeline (src/pixiv下载器.py): *)
(* the asset ledger (DBManager), the bounded task queue, the producer loop *)
(* and polling loop of run_full_simulation, the worker threads running     *)
(* download_worker_loop, and retry_failed_urls_after_main_loop.            *)
(*                                                                         *)
(* Thread 0 is the coordinator (the main thread), threads 1..N are the     *)
(* download workers.  Every access to a shared resource (queue, ledger,    *)
(* file system, counters, failure log) is one step of its thread.          *)
(***************************************************************************)
EXTENDS Integers, Sequences, FiniteSets, TLC

\* ------------------------------------------------------------- bounds
MaxPairs == 3
NWorks == 3
NHashes == 2
MaxRuns == 2
\* the program's constants, scaled down to keep the state space finite
DOWNLOAD_WORKERS == 2
POOL_MAXSIZE == 2
\* range(10) of the producer's put loop
PUT_ATTEMPTS == 10
\* max_retries of retry_failed_urls_after_main_loop
MAX_RETRY_ROUNDS == 3

Works == 1..NWorks
Hashes == 1..NHashes
Workers == 1..DOWNLOAD_WORKERS
Coord == 0
Threads == {Coord} \cup Workers

Min(S) == CHOOSE x \in S : \A y \in S : x <= y

\* ------------------------------------------------------------- URLs, paths
\* An asset URL https://i.pximg.net/img-original/img/<w>_p0.<ext>
Url(w, e) == [w |-> w, ext |-> e]
URLS == {Url(w, e) : w \in Works, e \in {"jpg", "png"}}

\* download_with_backoff: the alternate-extension counterpart of a URL
AltUrl(u) == Url(u.w, IF u.ext = "jpg" THEN "png" ELSE "jpg")

\* generate_candidates_from_thumb on an img-master thumbnail ..._p0_master1200.jpg
\* of work t: the to_original_url rewrite, its .png counterpart; the date-path
\* branch adds the same two URLs again, which the final pass removes.
generate_candidates_from_thumb(t) == << Url(t, "jpg"), Url(t, "png") >>

\* os.path.join(save_dir_root, f"{page}_{page_seq}_{tag}_{author}{ext}")
\* the same name without the per-page sequence number
SavePathNoSeq(page, seq, e) == [dir |-> "tag", page |-> page, seq |-> 1, ext |-> e]
SavePath(page, seq, e) == [dir |-> "tag", page |-> page, seq |-> seq, ext |-> e]
\* os.path.join(SAVE_ROOT, "retries", "retry_<time>_<basename>" + ext)
RetryPath(u) == [dir |-> "retries", page |-> 0, seq |-> u.w, ext |-> u.ext]

NoStatus == 0
NoPath == [dir |-> "none", page |-> 0, seq |-> 0, ext |-> ""]
NoUrl == [w |-> 0, ext |-> ""]
\* md5 '' in a row, and the md5 argument None
NoMd5 == 0
NoneMd5 == -1
NoRes == [ok |-> FALSE, status |-> NoStatus, size |-> 0, md5 |-> NoMd5]
NoTask == [id |-> 0, url |-> NoUrl, save_path |-> NoPath]

\* None for expected_len / total_expected, and a GET without a Range header
NoLen == -1
NoRange == -1

\* A file as the sequence of its bytes; a byte is known by the URL whose
\* content it belongs to and by its offset in that content.
Byte(u, k) == [src |-> u, off |-> k]
Bytes(u, a, b) == [i \in 1..(b - a) |-> Byte(u, a + i - 1)]
NoFile == [present |-> FALSE, bytes |-> << >>]
FileOf(bs) == [present |-> TRUE, bytes |-> bs]
\* what an earlier invocation left at the destination path
OldFile == FileOf(<< Byte(NoUrl, 0) >>)
\* os.path.getsize(p) if os.path.exists(p) else dflt
GetSizeOr(f, dflt) == IF f.present THEN Len(f.bytes) ELSE dflt

\* byte size of the content with hash h
SizeOf(h) == 100 * h

VARIABLES
    download_workers, \* the download_workers argument of run_full_simulation
    invocations,    \* how many times the script is run on the same store
    run,            \* number of the current invocation of run_full_simulation
    thumbs_by_page, \* what discovery returns: page -> sequence of thumbnails
    db,             \* the images table: its rows
    files,          \* published files: path -> content
    failed_log,     \* FAILED_LOG: the URLs of its lines, in order
    stats,          \* ProgressStats
    all_tasks,      \* the coordinator's task list
    task_q,         \* queue.Queue(maxsize=POOL_MAXSIZE): the entries
    unfinished,     \* task_q.unfinished_tasks
    pc,             \* thread -> position
    cur,            \* thread -> the task in hand
    res,            \* thread -> (ok, status, size, elapsed) of its download
    dup,            \* thread -> saved_path of the row find_by_md5 returned
    put_i,          \* producer: index of the task being put
    put_attempt,    \* producer: timed-out puts for that task
    retry_list,     \* retry pass: actually_failed
    retry_i,        \* retry pass: index in actually_failed
    retry_attempt,  \* retry pass: round for that URL
    terminal,       \* history: task id -> outcomes counted for it
    gets,           \* history: number of entries dequeued in this run
    lookups,        \* history: url -> ledger keys present when its hash lookup ran
    prev,           \* history: counters and files at the end of the previous run
    last_insert,    \* history: url -> arguments of the latest insert() for it
    xfer,           \* one download_with_backoff call, its files and its server
    pages,          \* the pages argument of run_full_simulation
    transfers,      \* history: task id -> what its download_with_backoff returned
    gen,            \* one generate_candidates_from_thumb call
    plock,          \* ProgressStats.lock and the threads inside its methods
    timeouts,       \* history: worker -> its consecutive queue.Empty timeouts
    store,          \* the sqlite file as DBManager._init finds and leaves it
    single          \* the single-page script: its run, its files, its record file

vars == << download_workers, invocations, run, thumbs_by_page, db, files, failed_log,
           stats, all_tasks, task_q, unfinished, pc, cur, res, dup, put_i, put_attempt,
           retry_list, retry_i, retry_attempt, terminal, gets, lookups, prev,
           last_insert, xfer, pages, transfers, gen, plock, timeouts,
           store, single >>

\* ------------------------------------------------------------- single-page script
\* src/Pixiv下载器.py before main() is called: no downloaded_images.txt, no image
SingleIdle ==
    [pc |-> "idle", run |-> 0, page |-> << >>, i |-> 0, end |-> 0, seq |-> 0,
     seen |-> {}, downloaded_images |-> {}, record |-> << >>, saved |-> << >>,
     fetched |-> << >>]

\* ------------------------------------------------------------- DBManager
\* no DBManager has been constructed on the sqlite file yet
StoreClosed ==
    [pc |-> "closed", columns |-> {}, rows |-> {}, old |-> {}, inserted |-> << >>,
     found |-> << >>]

\* DBManager.exists: SELECT 1 FROM images WHERE url = ?
DbExists(d, u) == \E r \in d : r.url = u

\* DBManager.insert: INSERT OR REPLACE INTO images ... (url is the PRIMARY KEY:
\* the rows with this url go, the new row comes); md5 or '' (NoMd5)
Md5OrEmpty(md5) == IF md5 = NoneMd5 THEN NoMd5 ELSE md5

NewRow(u, path, status, size, md5) ==
    [url |-> u, saved_path |-> path, status |-> status, size |-> size,
     md5 |-> Md5OrEmpty(md5)]

\* (mutant: a plain INSERT that leaves the earlier row of the url in place)
DbInsertNoReplace(d, u, path, status, size, md5) ==
    d \cup {NewRow(u, path, status, size, md5)}

DbInsert(d, u, path, status, size, md5) ==
    {r \in d : r.url # u} \cup {NewRow(u, path, status, size, md5)}

\* DBManager.find_by_md5: the rows SELECT ... WHERE md5 = ? can return first
\* (no ORDER BY: any matching row); the empty set when fetchone() gives None
DbFindByMd5(d, md5) == {r \in d : r.md5 = md5}

\* the URLs the ledger has a row for, and the rows of one URL
DbUrls(d) == {r.url : r \in d}
RowsOf(d, u) == {r \in d : r.url = u}

\* ------------------------------------------------------------- file system
FileExists(f, path) == path \in DOMAIN f

\* os.replace(tmp_path, save_path): publish content c at path
FsPublish(f, path, c) == [x \in DOMAIN f \cup {path} |-> IF x = path THEN c ELSE f[x]]

\* os.remove(path) inside try/except: pass
FsRemove(f, path) == [x \in DOMAIN f \ {path} |-> f[x]]

\* ------------------------------------------------------------- transfer
\* What download_with_backoff(session, u, save_path) can return, and the
\* content it publishes at save_path when ok: the body the server sent (hash h)
\* for the candidate that succeeded, u itself or its alternate extension.
OkStatuses == {200}
FailStatuses == {404}
Contents(u) == {[md5 |-> h] : h \in Hashes}

\* ------------------------------------------------------------- ProgressStats
NewStats == [total_queued |-> 0, success |-> 0, failed |-> 0, skipped |-> 0]
inc_total(s, n) == [s EXCEPT !.total_queued = @ + n]
inc_success(s) == [s EXCEPT !.success = @ + 1]
inc_failed(s) == [s EXCEPT !.failed = @ + 1]
inc_skipped(s) == [s EXCEPT !.skipped = @ + 1]
\* the four counters, in the order snapshot() returns them
Counters == << "total_queued", "success", "failed", "skipped" >>
\* the threads that call ProgressStats methods, and the calls they make in all
NStatThreads == 2
MaxCalls == 3
StatThreads == 1..NStatThreads
NoHolder == 0
ThreadIdle == [pc |-> "idle", op |-> "none", tmp |-> 0, snap |-> << >>]
\* self.lock free, no thread inside a method, no call completed
LockIdle ==
    [holder |-> NoHolder,
     th |-> [t \in StatThreads |-> ThreadIdle],
     done |-> [total_queued |-> 0, success |-> 0, failed |-> 0, skipped |-> 0],
     calls |-> 0]
\* remaining = total - succ - fail - skipped of the polling loop
Remaining(s) == s.total_queued - s.success - s.failed - s.skipped

\* ------------------------------------------------------------- planning
\* for c in candidates: if not db.exists(c): chosen = c; break
FirstNew(cands, d) ==
    LET new == {k \in 1..Len(cands) : ~DbExists(d, cands[k])}
    IN IF new = {} THEN 0 ELSE Min(new)

\* the loop over one page's thumbnails: page_seq counts every pair
RECURSIVE PlanPage(_, _, _, _)
PlanPage(page, page_thumbs, i, d) ==
    IF i > Len(page_thumbs) THEN << >>
    ELSE LET cands == generate_candidates_from_thumb(page_thumbs[i])
             k == FirstNew(cands, d)
             task == [url |-> cands[k], save_path |-> SavePath(page, i, cands[k].ext)]
         IN (IF k = 0 THEN << >> ELSE << task >>) \o PlanPage(page, page_thumbs, i + 1, d)

\* for page in pages: ...
RECURSIVE PlanPages(_, _, _, _)
PlanPages(pgs, tbp, j, d) ==
    IF j > Len(pgs) THEN << >>
    ELSE PlanPage(pgs[j], tbp[pgs[j]], 1, d) \o PlanPages(pgs, tbp, j + 1, d)

\* ------------------------------------------------------------- initial state
NoRet == [ok |-> FALSE, status |-> NoStatus, size |-> 0]
XferIdle ==
    [pc |-> "idle", url |-> NoUrl, candidates |-> << >>, len |-> << >>,
     candidate |-> 0, attempt |-> 0, tmp |-> NoFile, dest |-> NoFile,
     existing |-> 0, expected_len |-> NoLen, range_from |-> NoRange,
     status |-> NoStatus, body |-> << >>, content_range |-> NoLen,
     written |-> 0, ret |-> NoRet, why |-> "", last_status |-> NoStatus,
     s0 |-> << >>, recv |-> << >>, d0 |-> NoFile, steps |-> << >>,
     tried |-> << >>, won |-> {}, only404 |-> TRUE, last_bad |-> NoStatus,
     rm_failed |-> 0]

\* discovery results: 1..MaxPairs thumbnails of works that may repeat; the
\* works are numbered in the order of their first thumbnail
Discoveries ==
    UNION {{s \in [1..n -> Works] :
               \A i \in 1..n : \A w \in 1..(s[i] - 1) : \E j \in 1..(i - 1) : s[j] = w}
           : n \in 1..MaxPairs}

\* a run with the full worker pool, reruns on the same store with one worker,
\* and a run whose pages argument names the page twice
Configs ==
    {[workers |-> DOWNLOAD_WORKERS, runs |-> 1, pages |-> << 1 >>],
     [workers |-> 1, runs |-> MaxRuns, pages |-> << 1 >>],
     [workers |-> DOWNLOAD_WORKERS, runs |-> 1, pages |-> << 1, 1 >>]}

\* a task whose download_with_backoff call has not returned
NoTransfer == [called |-> FALSE, ok |-> FALSE, md5 |-> NoMd5]
Transferred(ok, md5) == [called |-> TRUE, ok |-> ok, md5 |-> md5]

GenIdle ==
    [pc |-> "idle", thumb_url |-> << >>, max_pages |-> 0, candidates |-> << >>,
     i |-> 0, seen |-> {}, out |-> << >>]

\* the state at the start of the first invocation, for one configuration
InitFor(cfg) ==
    /\ download_workers = cfg.workers
    /\ invocations = cfg.runs
    /\ pages = cfg.pages
    /\ run = 1
    /\ thumbs_by_page \in [{1} -> Discoveries]
    /\ Len(pages) * Len(thumbs_by_page[1]) <= MaxPairs
    /\ transfers = << >>
    /\ gen = GenIdle
    /\ plock = LockIdle
    /\ db = {}
    /\ files = << >>
    /\ failed_log = << >>
    /\ stats = NewStats
    /\ all_tasks = << >>
    /\ task_q = << >>
    /\ unfinished = 0
    /\ pc = [t \in Threads |-> IF t = Coord THEN "start" ELSE "idle"]
    /\ cur = [t \in Threads |-> NoTask]
    /\ res = [t \in Threads |-> NoRes]
    /\ dup = [t \in Threads |-> NoPath]
    /\ put_i = 0
    /\ put_attempt = 0
    /\ retry_list = << >>
    /\ retry_i = 0
    /\ retry_attempt = 0
    /\ terminal = << >>
    /\ gets = 0
    /\ lookups = << >>
    /\ prev = [stats |-> NewStats, paths |-> {}]
    /\ last_insert = << >>
    /\ xfer = XferIdle
    /\ timeouts = [w \in Workers |-> 0]
    /\ store = StoreClosed
    /\ single = SingleIdle

Init == \E cfg \in Configs : InitFor(cfg)

\* ------------------------------------------------------------- queue.Queue
\* Queue.task_done raises ValueError('task_done() called too many times')
\* when unfinished_tasks is already 0, and leaves the count as it is
TaskDoneRaises(n) == n - 1 < 0
TaskDone(n) == IF TaskDoneRaises(n) THEN n ELSE n - 1

\* (mutant: a queue without a capacity)
PutNoLimit(q) == TRUE

\* Queue.put(item, timeout=30) can complete only while qsize() < maxsize
PutHasRoom(q) == Len(q) < POOL_MAXSIZE

\* (mutant: a task given up without being counted)
GiveUpUncounted(s) == s

\* if not added: stats.inc_skipped()
GiveUpTask(s) == inc_skipped(s)

\* ------------------------------------------------------------- coordinator
Goto(t, label) == pc' = [pc EXCEPT ![t] = label]

\* run_full_simulation up to the start of the worker threads: clear FAILED_LOG,
\* build all_tasks against the ledger, count them, return when there is none
C_Plan ==
    /\ pc[Coord] = "start"
    /\ LET tasks == PlanPages(pages, thumbs_by_page, 1, db)
       IN /\ all_tasks' = tasks
          /\ stats' = inc_total(NewStats, Len(tasks))
          /\ terminal' = [i \in 1..Len(tasks) |-> {}]
          /\ transfers' = [i \in 1..Len(tasks) |-> NoTransfer]
          /\ pc' = [t \in Threads |->
                      IF Len(tasks) = 0 THEN (IF t = Coord THEN "done" ELSE "idle")
                      ELSE (IF t = Coord THEN "put"
                            ELSE IF t <= download_workers THEN "get" ELSE "idle")]
    /\ failed_log' = << >>
    /\ put_i' = 1
    /\ put_attempt' = 0
    /\ UNCHANGED << download_workers, invocations, run, thumbs_by_page, db, files,
                    task_q, unfinished, cur, res, dup, retry_list, retry_i,
                    retry_attempt, gets, lookups, prev, last_insert, xfer, pages, gen,
                    plock, timeouts, store, single >>

\* after the last task the producer loop ends and the polling loop starts
AfterPut(i) == IF i > Len(all_tasks) THEN "poll" ELSE "put"

\* task_q.put((url, save_path), timeout=30) completes
C_Put ==
    /\ pc[Coord] = "put"
    /\ PutHasRoom(task_q)
    /\ task_q' = Append(task_q, [id |-> put_i, url |-> all_tasks[put_i].url,
                                 save_path |-> all_tasks[put_i].save_path])
    /\ unfinished' = unfinished + 1
    /\ put_i' = put_i + 1
    /\ put_attempt' = 0
    /\ Goto(Coord, AfterPut(put_i + 1))
    /\ UNCHANGED << download_workers, invocations, run, thumbs_by_page, db, files,
                    failed_log, stats, all_tasks, cur, res, dup, retry_list, retry_i,
                    retry_attempt, terminal, gets, lookups, prev, last_insert, xfer,
                    pages, transfers, gen, plock, timeouts, store, single >>

\* the put times out on a full queue (queue.Full); after PUT_ATTEMPTS of them
\* the task is given up: stats.inc_skipped()
C_PutFull ==
    /\ pc[Coord] = "put"
    /\ ~PutHasRoom(task_q)
    /\ IF put_attempt + 1 < PUT_ATTEMPTS
       THEN /\ put_attempt' = put_attempt + 1
            /\ UNCHANGED << put_i, stats, terminal, pc, timeouts, store, single >>
       ELSE /\ put_attempt' = 0
            /\ put_i' = put_i + 1
            /\ stats' = GiveUpTask(stats)
            /\ terminal' = [terminal EXCEPT ![put_i] = @ \cup {"dropped"}]
            /\ Goto(Coord, AfterPut(put_i + 1))
    /\ UNCHANGED << download_workers, invocations, run, thumbs_by_page, db, files,
                    failed_log, all_tasks, task_q, unfinished, cur, res, dup,
                    retry_list, retry_i, retry_attempt, gets, lookups, prev,
                    last_insert, xfer, pages, gen, plock, transfers, timeouts, store, single >>

\* the polling loop leaves when remaining <= 0
C_Poll ==
    /\ pc[Coord] = "poll"
    /\ Remaining(stats) <= 0
    /\ Goto(Coord, "join")
    /\ UNCHANGED << download_workers, invocations, run, thumbs_by_page, db, files,
                    failed_log, stats, all_tasks, task_q, unfinished, cur, res, dup,
                    put_i, put_attempt, retry_list, retry_i, retry_attempt, terminal,
                    gets, lookups, prev, last_insert, xfer, pages, transfers, gen, plock,
                    timeouts, store, single >>

\* task_q.join() returns when unfinished_tasks is 0; t.join(timeout=0.1) waits
\* for no worker
C_Join ==
    /\ pc[Coord] = "join"
    /\ unfinished = 0
    /\ Goto(Coord, "retry")
    /\ UNCHANGED << download_workers, invocations, run, thumbs_by_page, db, files,
                    failed_log, stats, all_tasks, task_q, unfinished, cur, res, dup,
                    put_i, put_attempt, retry_list, retry_i, retry_attempt, terminal,
                    gets, lookups, prev, last_insert, xfer, pages, transfers, gen, plock,
                    timeouts, store, single >>

\* ------------------------------------------------------------- recording a download
\* (download_worker_loop lines 727-743 and the same code in the retry pass,
\* lines 1067-1081; Coord runs it in the retry pass, a worker in its loop)
StatusOr200(st) == IF st = NoStatus THEN 200 ELSE st

\* where a thread goes once its ledger insert is done
AfterRecord(t) == IF t = Coord THEN "r_next" ELSE "inc_success"

\* md5 = md5_of_file(save_path); dup = db.find_by_md5(md5).  A missing file
\* makes md5_of_file raise: the handler inserts with md5 None.
Md5Find(t) ==
    /\ pc[t] = "md5"
    /\ IF ~FileExists(files, cur[t].save_path)
       THEN /\ Goto(t, "insert_nomd5")
            /\ UNCHANGED << res, dup, lookups, timeouts, store, single >>
       ELSE LET md5 == files[cur[t].save_path].md5
                rows == DbFindByMd5(db, md5)
            IN /\ res' = [res EXCEPT ![t].md5 = md5]
               /\ lookups' = [x \in DOMAIN lookups \cup {cur[t].url} |->
                                IF x = cur[t].url
                                THEN [own |-> cur[t].save_path, saw |-> DbUrls(rows)]
                                ELSE lookups[x]]
               /\ IF rows = {}
                  THEN /\ dup' = [dup EXCEPT ![t] = NoPath]
                       /\ Goto(t, "insert")
                  ELSE \E r \in rows :
                       /\ dup' = [dup EXCEPT ![t] = r.saved_path]
                       /\ Goto(t, "remove")
    /\ UNCHANGED << download_workers, invocations, run, thumbs_by_page, db, files,
                    failed_log, stats, all_tasks, task_q, unfinished, cur, put_i,
                    put_attempt, retry_list, retry_i, retry_attempt, terminal, gets,
                    prev, last_insert, xfer, pages, transfers, gen, plock, timeouts,
                    store, single >>

\* os.remove(save_path) of the duplicate just written
RemoveDup(t) ==
    /\ pc[t] = "remove"
    /\ files' = FsRemove(files, cur[t].save_path)
    /\ Goto(t, "insert_dup")
    /\ UNCHANGED << download_workers, invocations, run, thumbs_by_page, db, failed_log,
                    stats, all_tasks, task_q, unfinished, cur, res, dup, put_i,
                    put_attempt, retry_list, retry_i, retry_attempt, terminal, gets,
                    lookups, prev, last_insert, xfer, pages, transfers, gen, plock,
                    timeouts, store, single >>

\* the ledger row a thread at label l writes
RowPath(t, l) == IF l = "insert_dup" THEN dup[t] ELSE cur[t].save_path
RowMd5(t, l) == IF l = "insert_nomd5" THEN NoneMd5 ELSE res[t].md5

\* db.insert(url, dup[1], ...), db.insert(url, save_path, ..., md5) and
\* db.insert(url, save_path, ..., None)
Record(t) ==
    /\ pc[t] \in {"insert_dup", "insert", "insert_nomd5"}
    /\ db' = DbInsert(db, cur[t].url, RowPath(t, pc[t]), StatusOr200(res[t].status),
                      res[t].size, RowMd5(t, pc[t]))
    /\ Goto(t, AfterRecord(t))
    /\ UNCHANGED << download_workers, invocations, run, thumbs_by_page, files,
                    failed_log, stats, all_tasks, task_q, unfinished, cur, res, dup,
                    put_i, put_attempt, retry_list, retry_i, retry_attempt, terminal,
                    gets, lookups, prev, last_insert, xfer, pages, transfers, gen, plock,
                    timeouts, store, single >>

\* ------------------------------------------------------------- download_worker_loop
\* the producer has left its put loop
ProducerDone == pc[Coord] \notin {"start", "put"}

\* task_q.get(timeout=6) returns an entry
W_Get(w) ==
    /\ pc[w] = "get"
    /\ task_q # << >>
    /\ cur' = [cur EXCEPT ![w] = Head(task_q)]
    /\ task_q' = Tail(task_q)
    /\ gets' = gets + 1
    /\ timeouts' = [timeouts EXCEPT ![w] = 0]
    /\ Goto(w, "exists")
    /\ UNCHANGED << download_workers, invocations, run, thumbs_by_page, db, files,
                    failed_log, stats, all_tasks, unfinished, res, dup, put_i,
                    put_attempt, retry_list, retry_i, retry_attempt, terminal, lookups,
                    prev, last_insert, xfer, pages, transfers, gen, plock, store, single >>

\* (mutant: the worker takes one empty timeout and waits again)
AfterSecondTimeout(n) == IF n > 1 THEN "exited" ELSE "get"

\* except queue.Empty: return, whatever the number n of timeouts so far
AfterTimeout(n) == "exited"

\* queue.Empty after 6 s: return.  The producer puts without pausing unless
\* the queue is full, so the queue stays empty that long only once the
\* producer is through.
W_Timeout(w) ==
    /\ pc[w] = "get"
    /\ task_q = << >>
    /\ ProducerDone
    /\ timeouts' = [timeouts EXCEPT ![w] = @ + 1]
    /\ Goto(w, AfterTimeout(timeouts[w] + 1))
    /\ UNCHANGED << download_workers, invocations, run, thumbs_by_page, db, files,
                    failed_log, stats, all_tasks, task_q, unfinished, cur, res, dup,
                    put_i, put_attempt, retry_list, retry_i, retry_attempt, terminal,
                    gets, lookups, prev, last_insert, xfer, pages, transfers, gen, plock,
                    store, single >>

\* if db.exists(url)
W_Exists(w) ==
    /\ pc[w] = "exists"
    /\ Goto(w, IF DbExists(db, cur[w].url) THEN "skip_inc" ELSE "download")
    /\ UNCHANGED << download_workers, invocations, run, thumbs_by_page, db, files,
                    failed_log, stats, all_tasks, task_q, unfinished, cur, res, dup,
                    put_i, put_attempt, retry_list, retry_i, retry_attempt, terminal,
                    gets, lookups, prev, last_insert, xfer, pages, transfers, gen, plock,
                    timeouts, store, single >>

\* stats.inc_skipped()
W_SkipInc(w) ==
    /\ pc[w] = "skip_inc"
    /\ stats' = inc_skipped(stats)
    /\ terminal' = [terminal EXCEPT ![cur[w].id] = @ \cup {"skipped"}]
    /\ Goto(w, "skip_done")
    /\ UNCHANGED << download_workers, invocations, run, thumbs_by_page, db, files,
                    failed_log, all_tasks, task_q, unfinished, cur, res, dup, put_i,
                    put_attempt, retry_list, retry_i, retry_attempt, gets, lookups,
                    prev, last_insert, xfer, pages, gen, plock, transfers, timeouts,
                    store, single >>

\* task_q.task_done(); continue -- inside the try: a ValueError goes to the
\* except clause, and continue runs the finally clause
W_SkipDone(w) ==
    /\ pc[w] = "skip_done"
    /\ unfinished' = TaskDone(unfinished)
    /\ Goto(w, IF TaskDoneRaises(unfinished) THEN "except" ELSE "finally")
    /\ UNCHANGED << download_workers, invocations, run, thumbs_by_page, db, files,
                    failed_log, stats, all_tasks, task_q, cur, res, dup, put_i,
                    put_attempt, retry_list, retry_i, retry_attempt, terminal, gets,
                    lookups, prev, last_insert, xfer, pages, transfers, gen, plock,
                    timeouts, store, single >>

\* ok, status, size, elapsed = download_with_backoff(...) and the CSV row;
\* an exception raised here (I/O, sqlite) goes to the except clause
W_Download(w) ==
    /\ pc[w] = "download"
    /\ \/ \E st \in OkStatuses, c \in Contents(cur[w].url) :
            /\ files' = FsPublish(files, cur[w].save_path, c)
            /\ res' = [res EXCEPT ![w] = [ok |-> TRUE, status |-> st,
                                          size |-> SizeOf(c.md5), md5 |-> NoMd5]]
            /\ transfers' = [transfers EXCEPT ![cur[w].id] = Transferred(TRUE, c.md5)]
            /\ Goto(w, "md5")
       \/ \E st \in FailStatuses :
            /\ res' = [res EXCEPT ![w] = [ok |-> FALSE, status |-> st,
                                          size |-> 0, md5 |-> NoMd5]]
            /\ transfers' = [transfers EXCEPT ![cur[w].id] = Transferred(FALSE, NoMd5)]
            /\ Goto(w, "log_failed")
            /\ UNCHANGED files
       \/ /\ transfers' = [transfers EXCEPT ![cur[w].id] = Transferred(FALSE, NoMd5)]
          /\ Goto(w, "except")
          /\ UNCHANGED << files, res, timeouts, store, single >>
    /\ UNCHANGED << download_workers, invocations, run, thumbs_by_page, db, failed_log,
                    stats, all_tasks, task_q, unfinished, cur, dup, put_i, put_attempt,
                    retry_list, retry_i, retry_attempt, terminal, gets, lookups, prev,
                    last_insert, xfer, pages, gen, plock, timeouts, store, single >>

\* stats.inc_success()
W_IncSuccess(w) ==
    /\ pc[w] = "inc_success"
    /\ stats' = inc_success(stats)
    /\ terminal' = [terminal EXCEPT ![cur[w].id] = @ \cup {"success"}]
    /\ Goto(w, "finally")
    /\ UNCHANGED << download_workers, invocations, run, thumbs_by_page, db, files,
                    failed_log, all_tasks, task_q, unfinished, cur, res, dup, put_i,
                    put_attempt, retry_list, retry_i, retry_attempt, gets, lookups,
                    prev, last_insert, xfer, pages, gen, plock, transfers, timeouts,
                    store, single >>

\* the line appended to FAILED_LOG
W_LogFailed(w) ==
    /\ pc[w] = "log_failed"
    /\ failed_log' = Append(failed_log, cur[w].url)
    /\ Goto(w, "inc_failed")
    /\ UNCHANGED << download_workers, invocations, run, thumbs_by_page, db, files,
                    stats, all_tasks, task_q, unfinished, cur, res, dup, put_i,
                    put_attempt, retry_list, retry_i, retry_attempt, terminal, gets,
                    lookups, prev, last_insert, xfer, pages, transfers, gen, plock,
                    timeouts, store, single >>

\* stats.inc_failed(), in the else branch and in the except clause
W_IncFailed(w) ==
    /\ pc[w] \in {"inc_failed", "except"}
    /\ stats' = inc_failed(stats)
    /\ terminal' = [terminal EXCEPT ![cur[w].id] = @ \cup {"failed"}]
    /\ Goto(w, "finally")
    /\ UNCHANGED << download_workers, invocations, run, thumbs_by_page, db, files,
                    failed_log, all_tasks, task_q, unfinished, cur, res, dup, put_i,
                    put_attempt, retry_list, retry_i, retry_attempt, gets, lookups,
                    prev, last_insert, xfer, pages, gen, plock, transfers, timeouts,
                    store, single >>

\* finally: task_q.task_done() -- a ValueError here leaves the function
W_Finally(w) ==
    /\ pc[w] = "finally"
    /\ unfinished' = TaskDone(unfinished)
    /\ Goto(w, IF TaskDoneRaises(unfinished) THEN "dead" ELSE "get")
    /\ UNCHANGED << download_workers, invocations, run, thumbs_by_page, db, files,
                    failed_log, stats, all_tasks, task_q, cur, res, dup, put_i,
                    put_attempt, retry_list, retry_i, retry_attempt, terminal, gets,
                    lookups, prev, last_insert, xfer, pages, transfers, gen, plock,
                    timeouts, store, single >>

\* ------------------------------------------------------------- retry pass
\* list(dict.fromkeys(urls)): first occurrences, in order
RECURSIVE Uniq(_)
Uniq(q) ==
    IF q = << >> THEN << >>
    ELSE LET front == Uniq(SubSeq(q, 1, Len(q) - 1))
             x == q[Len(q)]
         IN IF \E k \in 1..Len(front) : front[k] = x THEN front ELSE Append(front, x)

\* (mutant: every logged URL is retried, whatever the ledger holds)
AllLogged(log, d) == Uniq(log)

\* actually_failed: the logged URLs the ledger does not contain
ActuallyFailed(log, d) == SelectSeq(Uniq(log), LAMBDA u : ~DbExists(d, u))

RetryTask(u) == [id |-> 0, url |-> u, save_path |-> RetryPath(u)]

\* (mutant: the log is left as it is)
LogKept == failed_log

\* with open(FAILED_LOG, 'w', encoding='utf-8') as f: f.write("")
LogEmptied == << >>

\* retry_failed_urls_after_main_loop up to its first download: read the log,
\* filter it against the ledger, empty the log and return when nothing is left
R_Read ==
    /\ pc[Coord] = "retry"
    /\ LET todo == ActuallyFailed(failed_log, db)
       IN IF todo = << >>
          THEN /\ failed_log' = LogEmptied
               /\ Goto(Coord, "done")
               /\ UNCHANGED << retry_list, retry_i, retry_attempt, cur, timeouts, store, single >>
          ELSE /\ retry_list' = todo
               /\ retry_i' = 1
               /\ retry_attempt' = 1
               /\ cur' = [cur EXCEPT ![Coord] = RetryTask(todo[1])]
               /\ Goto(Coord, "r_download")
               /\ UNCHANGED failed_log
    /\ UNCHANGED << download_workers, invocations, run, thumbs_by_page, db, files,
                    stats, all_tasks, task_q, unfinished, res, dup, put_i, put_attempt,
                    terminal, gets, lookups, prev, last_insert, xfer, pages, transfers,
                    gen, plock, timeouts, store, single >>

\* for url in actually_failed: the next URL, or the end of the pass
R_Advance ==
    IF retry_i < Len(retry_list)
    THEN /\ retry_i' = retry_i + 1
         /\ retry_attempt' = 1
         /\ cur' = [cur EXCEPT ![Coord] = RetryTask(retry_list[retry_i + 1])]
         /\ Goto(Coord, "r_download")
    ELSE /\ Goto(Coord, "done")
         /\ UNCHANGED << retry_i, retry_attempt, cur, timeouts, store, single >>

\* one round: download_with_backoff(session, url, save_file, referer); a failed
\* or raising round sleeps and goes to the next round, the last one to the next URL
R_Download ==
    /\ pc[Coord] = "r_download"
    /\ \/ \E st \in OkStatuses, c \in Contents(cur[Coord].url) :
            /\ files' = FsPublish(files, cur[Coord].save_path, c)
            /\ res' = [res EXCEPT ![Coord] = [ok |-> TRUE, status |-> st,
                                              size |-> SizeOf(c.md5), md5 |-> NoMd5]]
            /\ Goto(Coord, "md5")
            /\ UNCHANGED << retry_i, retry_attempt, cur, timeouts, store, single >>
       \/ /\ IF retry_attempt < MAX_RETRY_ROUNDS
             THEN /\ retry_attempt' = retry_attempt + 1
                  /\ UNCHANGED << retry_i, cur, pc, timeouts, store, single >>
             ELSE R_Advance
          /\ UNCHANGED << files, res, timeouts, store, single >>
    /\ UNCHANGED << download_workers, invocations, run, thumbs_by_page, db, failed_log,
                    stats, all_tasks, task_q, unfinished, dup, put_i, put_attempt,
                    retry_list, terminal, gets, lookups, prev, last_insert, xfer, pages,
                    transfers, gen, plock, timeouts, store, single >>

\* success = True; break
R_Next ==
    /\ pc[Coord] = "r_next"
    /\ R_Advance
    /\ UNCHANGED << download_workers, invocations, run, thumbs_by_page, db, files,
                    failed_log, stats, all_tasks, task_q, unfinished, res, dup, put_i,
                    put_attempt, retry_list, terminal, gets, lookups, prev, last_insert,
                    xfer, pages, transfers, gen, plock, timeouts, store, single >>

\* ------------------------------------------------------------- the next invocation
\* The script ends when run_full_simulation returns; the daemon worker threads
\* end with it.  The ledger and the files stay; a later invocation for the same
\* tag, pages and range discovers the same thumbnails.
StartRun ==
    /\ pc[Coord] = "done"
    /\ run < invocations
    /\ run' = run + 1
    /\ pc' = [t \in Threads |-> IF t = Coord THEN "start" ELSE "idle"]
    /\ stats' = NewStats
    /\ timeouts' = [w \in Workers |-> 0]
    /\ all_tasks' = << >>
    /\ task_q' = << >>
    /\ unfinished' = 0
    /\ cur' = [t \in Threads |-> NoTask]
    /\ res' = [t \in Threads |-> NoRes]
    /\ dup' = [t \in Threads |-> NoPath]
    /\ put_i' = 0
    /\ put_attempt' = 0
    /\ retry_list' = << >>
    /\ retry_i' = 0
    /\ retry_attempt' = 0
    /\ terminal' = << >>
    /\ transfers' = << >>
    /\ gets' = 0
    /\ lookups' = << >>
    /\ prev' = [stats |-> stats, paths |-> DOMAIN files]
    /\ UNCHANGED << download_workers, invocations, thumbs_by_page, db, files,
                    failed_log, last_insert, xfer, pages, gen, plock, store, single >>

\* ------------------------------------------------------------- specification
WorkerStep(w) ==
    \/ W_Get(w) \/ W_Timeout(w) \/ W_Exists(w) \/ W_SkipInc(w) \/ W_SkipDone(w)
    \/ W_Download(w) \/ Md5Find(w) \/ RemoveDup(w) \/ Record(w)
    \/ W_IncSuccess(w) \/ W_LogFailed(w) \/ W_IncFailed(w) \/ W_Finally(w)

CoordStep ==
    \/ C_Plan \/ C_Put \/ C_PutFull \/ C_Poll \/ C_Join
    \/ R_Read \/ R_Download \/ Md5Find(Coord) \/ RemoveDup(Coord) \/ Record(Coord)
    \/ R_Next

\* a worker runs from its start to the end of the process
Alive == pc[Coord] # "done"

Next ==
    \/ CoordStep
    \/ \E w \in Workers : Alive /\ WorkerStep(w)
    \/ StartRun

Spec == Init /\ [][Next]_vars

\* ======================================================================
\* Properties of the pipeline
\* ======================================================================
ActiveWorkers == 1..download_workers
Counted(s) == s.success + s.failed + s.skipped
InQueue(i) == \E k \in 1..Len(task_q) : task_q[k].id = i
\* a thread between the end of its download and its ledger insert
Recording(t) == pc[t] \in {"md5", "remove", "insert_dup", "insert", "insert_nomd5"}
FilesWith(h) == {p \in DOMAIN files : files[p].md5 = h}
\* every worker thread has ended, by return or by an uncaught exception
WorkersGone == \A w \in ActiveWorkers : pc[w] \in {"exited", "dead"}

\* C1: every task gets at most one of the outcomes success, failed, skipped,
\* and succeeded + failed + skipped never exceeds queued.
C1_OneOutcomePerTask ==
    /\ \A i \in DOMAIN terminal : Cardinality(terminal[i]) <= 1
    /\ Counted(stats) <= stats.total_queued

\* C2: no error raised while a task is processed ends the worker thread.
C2_WorkerSurvivesErrors == \A w \in Workers : pc[w] # "dead"

\* C3: the counters converge, so the polling loop ends: when no worker is left
\* to count anything, the coordinator is not still waiting in the polling loop
\* for tasks that were never counted.
C3_PollingLoopEnds ==
    (pc[Coord] = "poll" /\ WorkersGone) => Remaining(stats) <= 0

\* C4: two distinct URLs with the same content hash, the second one's hash
\* lookup made after the first one's insert: of the two files (the one the
\* first record names, the one the second download wrote) exactly one is on
\* disk, and both ledger records have its path.
C4_DedupOneFile ==
    \A r1 \in db, r2 \in db :
        ( /\ r1.url # r2.url
          /\ r2.url \in DOMAIN lookups
          /\ r1.url \in lookups[r2.url].saw
          /\ r2.md5 # NoMd5
          /\ r1.md5 = r2.md5
          /\ \A t \in Threads : ~Recording(t) )
        => /\ r2.saved_path = r1.saved_path
           /\ FileExists(files, r1.saved_path)
           /\ lookups[r2.url].own # r1.saved_path
                 => ~FileExists(files, lookups[r2.url].own)

\* C5: two workers that both found the same hash absent: once everything has
\* run to its end, one file with that content is left and the two ledger
\* records point at the same path.
C5_RaceCorrected ==
    \A r1 \in db, r2 \in db :
        ( /\ r1.url # r2.url
          /\ r1.url \in DOMAIN lookups /\ lookups[r1.url].saw = {}
          /\ r2.url \in DOMAIN lookups /\ lookups[r2.url].saw = {}
          /\ r1.md5 # NoMd5
          /\ r1.md5 = r2.md5
          /\ pc[Coord] = "done" /\ WorkersGone )
        => /\ Cardinality(FilesWith(r1.md5)) = 1
           /\ r1.saved_path = r2.saved_path

Dropped == {i \in DOMAIN terminal : "dropped" \in terminal[i]}
SkippedByWorker == {i \in DOMAIN terminal : "skipped" \in terminal[i]}
\* puts that have completed in this run
PutsDone == IF pc[Coord] = "start" THEN 0 ELSE put_i - 1 - Cardinality(Dropped)

\* C8: the queue never holds more than its capacity; the producer cannot have
\* completed more puts than capacity plus the number of dequeues; a put on a
\* full queue keeps the task, and it can complete as soon as there is room.
C8_Backpressure ==
    /\ Len(task_q) <= POOL_MAXSIZE
    /\ PutsDone <= POOL_MAXSIZE + gets
    /\ (pc[Coord] = "put" /\ Len(task_q) < POOL_MAXSIZE) => ENABLED C_Put
    /\ (pc[Coord] = "put" /\ put_attempt > 0) =>
           (put_i \notin Dropped /\ ~InQueue(put_i))

\* C8 witness: the producer has timed out on the full queue, a worker has
\* dequeued since, and the put can now complete
C8_BlockedThenRoom ==
    /\ pc[Coord] = "put"
    /\ put_attempt > 0
    /\ gets > 0
    /\ Len(task_q) < POOL_MAXSIZE

\* C9: a task given up after PUT_ATTEMPTS timed-out puts is never on the
\* queue nor in a worker's hands, has the one outcome "skipped" counted by the
\* producer, the producer has moved on, and the skipped counter counts every
\* skip once.
C9_DroppedCountedOnce ==
    /\ \A i \in Dropped :
          /\ terminal[i] = {"dropped"}
          /\ ~InQueue(i)
          /\ \A w \in Workers : cur[w].id # i
          /\ put_i > i
    /\ stats.skipped = Cardinality(Dropped) + Cardinality(SkippedByWorker)

\* C9 witness: a task was given up, the producer went on, and the polling
\* loop has seen the counters converge
C9_DroppedAndConverged ==
    /\ Dropped # {}
    /\ pc[Coord] = "join"
    /\ Remaining(stats) = 0

\* C10: a rerun over the same 3 pairs, after a first run that downloaded all
\* 3 of them, ends with 3 skipped, 0 succeeded and no new file.
C10_RerunSkipsAll ==
    ( /\ run > 1
      /\ pc[Coord] = "done"
      /\ Len(thumbs_by_page[1]) = 3
      /\ prev.stats.total_queued = 3
      /\ prev.stats.success = 3 )
    => /\ stats.skipped = 3
       /\ stats.success = 0
       /\ DOMAIN files \subseteq prev.paths

\* the run is over: the coordinator returned from run_full_simulation
RunEnded == pc[Coord] = "done"
\* every planned task was handed to download_with_backoff and it reported success
AllTransfersOk ==
    /\ Len(transfers) = Len(thumbs_by_page[1])
    /\ \A i \in 1..Len(transfers) : transfers[i].called /\ transfers[i].ok
\* the pairs are pairwise different works and their bodies pairwise different
DistinctPairs ==
    /\ \A i, j \in 1..Len(thumbs_by_page[1]) :
          thumbs_by_page[1][i] = thumbs_by_page[1][j] => i = j
    /\ \A i, j \in 1..Len(transfers) : transfers[i].md5 = transfers[j].md5 => i = j
FreshRun == run = 1 /\ pages = << 1 >>

\* C11: a fresh run on one page over n distinct pairs, all absent from the
\* ledger, with pairwise distinct contents and all transfers succeeding, ends
\* with queued = n, succeeded = n, failed = 0, skipped = 0, n ledger records
\* and exactly the n files named page 1, seq 1..n.
C11_FreshRunAllSucceed ==
    (FreshRun /\ RunEnded /\ AllTransfersOk /\ DistinctPairs)
    => LET n == Len(thumbs_by_page[1])
       IN /\ stats = [total_queued |-> n, success |-> n, failed |-> 0, skipped |-> 0]
          /\ Cardinality(db) = n
          /\ DOMAIN files =
                {[dir |-> "tag", page |-> 1, seq |-> i, ext |-> "jpg"] : i \in 1..n}

\* a fresh run over two distinct pairs has ended with both transfers successful
C11_TwoPairsDone ==
    /\ FreshRun /\ RunEnded /\ AllTransfersOk /\ DistinctPairs
    /\ Len(thumbs_by_page[1]) = 2

\* two tasks of the run that carry the same (url, save_path) pair
SamePair(i, j) ==
    /\ i # j
    /\ all_tasks[i].url = all_tasks[j].url
    /\ all_tasks[i].save_path = all_tasks[j].save_path

\* C19: when the same (url, destination) pair is enqueued twice in a run, at
\* most one of the two tasks is handed to download_with_backoff; the other is
\* stopped by db.exists and counted as skipped.
C19_DuplicatePairOneTransfer ==
    \A i, j \in 1..Len(transfers) :
        SamePair(i, j) =>
            /\ ~(transfers[i].called /\ transfers[j].called)
            /\ (RunEnded /\ transfers[i].called /\ transfers[i].ok)
                  => "skipped" \in terminal[j]

\* ======================================================================
\* The ledger alone: any sequence of DBManager.insert calls
\* ======================================================================
\* Each insert() opens its own connection and commits one INSERT OR REPLACE;
\* sqlite serialises the writers, so calls from several workers take effect
\* one after the other, in some order.
NLedgerUrls == 2
LedgerUrls == {Url(w, "jpg") : w \in 1..NLedgerUrls}
LedgerArgs ==
    [url : LedgerUrls, saved_path : {SavePath(1, q, "jpg") : q \in 1..2},
     status : {200, 206}, size : {SizeOf(1), SizeOf(2)}, md5 : {NoneMd5, 1}]

L_Insert(t, a) ==
    /\ db' = DbInsert(db, a.url, a.saved_path, a.status, a.size, a.md5)
    /\ last_insert' =
          [u \in DOMAIN last_insert \cup {a.url} |->
              IF u = a.url
              THEN [args |-> a,
                    replaced |-> \E r \in RowsOf(db, u) :
                                    r # NewRow(u, a.saved_path, a.status, a.size, a.md5)]
              ELSE last_insert[u]]
    /\ UNCHANGED << download_workers, invocations, run, thumbs_by_page, files,
                    failed_log, stats, all_tasks, task_q, unfinished, pc, cur, res, dup,
                    put_i, put_attempt, retry_list, retry_i, retry_attempt, terminal,
                    gets, lookups, prev, xfer, pages, transfers, gen, plock, timeouts,
                    store, single >>

InitLedger ==
    /\ Init
    /\ download_workers = DOWNLOAD_WORKERS
    /\ thumbs_by_page = [p \in {1} |-> << 1 >>]
    /\ pages = << 1 >>

NextLedger == \E t \in Workers, a \in LedgerArgs : L_Insert(t, a)

SpecLedger == InitLedger /\ [][NextLedger]_vars

\* C7: after any sequence of insert calls the ledger has exactly one row for
\* each URL inserted, that row carries the arguments of the latest insert for
\* the URL (md5 None stored as ''), and exists(url) holds for exactly the
\* inserted URLs.
C7_LastWriteWins ==
    /\ \A u \in DOMAIN last_insert :
          LET a == last_insert[u].args
          IN RowsOf(db, u) =
                {[url |-> u, saved_path |-> a.saved_path, status |-> a.status,
                  size |-> a.size, md5 |-> IF a.md5 = NoneMd5 THEN NoMd5 ELSE a.md5]}
    /\ \A u \in LedgerUrls : DbExists(db, u) <=> u \in DOMAIN last_insert
    /\ Cardinality(db) = Cardinality(DOMAIN last_insert)

\* C7 witness: a URL inserted a second time with other metadata, while
\* another URL has its row too
C7_Reinserted ==
    \E u \in DOMAIN last_insert, v \in DOMAIN last_insert :
        u # v /\ last_insert[u].replaced /\ Cardinality(db) = 2

\* ======================================================================
\* One call of download_with_backoff, against a server that may fail
\* ======================================================================
MaxLen == 2
MAX_DOWNLOAD_RETRIES == 6

\* download_with_backoff: the candidate list of a URL
Candidates(u) == IF u.ext \in {"jpg", "png"} THEN << u, AltUrl(u) >> ELSE << u >>

\* if existing and expected_len and existing < expected_len: Range: bytes=<existing>-
RangeFrom(existing, expected_len) ==
    IF existing # 0 /\ expected_len # NoLen /\ expected_len # 0
          /\ existing < expected_len
    THEN existing ELSE NoRange

\* (mutant: one attempt more than the ceiling)
OneMoreAttempt(attempt) == attempt <= MAX_DOWNLOAD_RETRIES

\* for attempt in range(1, MAX_DOWNLOAD_RETRIES + 1): another attempt follows
MoreAttempts(attempt) == attempt < MAX_DOWNLOAD_RETRIES

\* (mutant: the staging file is always opened for writing from the start)
WriteModeTruncate(existing, present) == "wb"

\* mode = 'ab' if existing and os.path.exists(tmp_path) else 'wb'
WriteMode(existing, present) == IF existing # 0 /\ present THEN "ab" ELSE "wb"

\* total_expected: the total of the content-range header when the response
\* has one, else expected_len
TotalExpected(content_range, expected_len) ==
    IF content_range # NoLen THEN content_range ELSE expected_len

\* if total_expected and final_size != total_expected
SizeMismatch(total_expected, final_size) ==
    total_expected # NoLen /\ total_expected # 0 /\ final_size # total_expected

XCandidate == xfer.candidates[xfer.candidate]

\* return False, status, size, elapsed of attempt_download_with_resume
AttemptFails(x, status, size, why) ==
    [x EXCEPT !.pc = "failed", !.why = why,
              !.ret = [ok |-> FALSE, status |-> status, size |-> size]]

XferUrls == {Url(1, e) : e \in {"jpg", "png", "gif"}}

\* download_with_backoff(session, url, save_path): the server holds len[c]
\* bytes for each candidate c; an earlier call may have left s bytes of the
\* URL in the staging file, and a file at the destination path.
T_Call(u, len, s, old) ==
    /\ xfer.pc = "idle"
    /\ xfer' = [XferIdle EXCEPT !.pc = "begin", !.url = u,
                                !.candidates = Candidates(u), !.len = len,
                                !.candidate = 1, !.attempt = 1,
                                !.tmp = IF s = 0 THEN NoFile ELSE FileOf(Bytes(u, 0, s)),
                                !.dest = IF old THEN OldFile ELSE NoFile,
                                !.won = xfer.won]

\* attempt_download_with_resume, up to existing = os.path.getsize(tmp_path)
T_Begin ==
    /\ xfer.pc = "begin"
    /\ xfer' = [xfer EXCEPT !.pc = "head", !.existing = GetSizeOr(xfer.tmp, 0),
                            !.expected_len = NoLen, !.range_from = NoRange,
                            !.status = NoStatus, !.body = << >>,
                            !.content_range = NoLen, !.written = 0, !.ret = NoRet,
                            !.why = "", !.s0 = xfer.tmp.bytes, !.recv = << >>,
                            !.d0 = xfer.dest, !.steps = << >>,
                            !.tried = Append(xfer.tried, XCandidate)]

\* the HEAD probe: expected_len is set only from a 200/206 answer that has a
\* content-length header; a server that answers HEAD without producing the
\* body may send Content-Length: 0
HeadOutcomes == {"raise", "404", "200", "200+length", "200+length0"}
T_Head(o) ==
    /\ xfer.pc = "head"
    /\ xfer' = [xfer EXCEPT !.pc = "get", !.steps = Append(@, "head"),
                            !.expected_len = CASE o = "200+length" -> xfer.len[XCandidate]
                                               [] o = "200+length0" -> 0
                                               [] OTHER -> NoLen]

\* the GET: a raised exception, an error status, the whole content with 200,
\* or, for a ranged request, the content from the asked offset with 206
GetOutcomes == {"raise", "404", "200", "206"}
T_Get(o) ==
    /\ xfer.pc = "get"
    /\ LET from == RangeFrom(xfer.existing, xfer.expected_len)
           x == [xfer EXCEPT !.range_from = from, !.steps = Append(@, "get"),
                             !.only404 = @ /\ (xfer.candidate # 1 \/ o = "404")]
           L == xfer.len[XCandidate]
       IN CASE o = "raise" -> xfer' = AttemptFails(x, NoStatus, 0, "get")
            [] o = "404" -> xfer' = AttemptFails([x EXCEPT !.status = 404, !.last_bad = 404],
                                                 404, 0, "status")
            [] o = "200" ->
                 xfer' = [x EXCEPT !.pc = "write", !.status = 200,
                                   !.body = Bytes(XCandidate, 0, L)]
            [] o = "206" ->
                 /\ from # NoRange
                 /\ xfer' = [x EXCEPT !.pc = "write", !.status = 206,
                                      !.body = Bytes(XCandidate, from, L),
                                      !.content_range = L]

\* (mutant: the staging file is published without the size verification)
AfterWriteSkipVerify == "publish"

\* if not ok: return False, ...; otherwise the size verification comes next
AfterWrite == "verify"

\* os.remove(tmp_path) inside try: ... except: pass
RemoveOutcomes == {"removed", "raise"}
\* how many times os.remove may raise during one download_with_backoff call
MaxRemoveFailures == 1

\* lines 430-447: a 200 answer removes the partial staging file and resets
\* existing, unless os.remove raises, which is swallowed and leaves both as
\* they are; then safe_write_with_resume streams the body into the staging
\* file.  The stream may end after k bytes of the body, with or without an
\* exception.
T_Write(k, raised) ==
    /\ xfer.pc = "write"
    /\ k <= Len(xfer.body)
    /\ raised => k < Len(xfer.body)
    /\ \E rm \in RemoveOutcomes :
       LET stale == xfer.status = 200 /\ xfer.existing # 0
           discard == stale /\ rm = "removed"
           tmp1 == IF discard THEN NoFile ELSE xfer.tmp
           existing1 == IF discard THEN 0 ELSE xfer.existing
           base == IF WriteMode(existing1, tmp1.present) = "ab"
                   THEN tmp1.bytes ELSE << >>
           chunk == SubSeq(xfer.body, 1, k)
           x == [xfer EXCEPT !.existing = existing1, !.tmp = FileOf(base \o chunk),
                             !.recv = chunk, !.steps = Append(@, "write"),
                             !.rm_failed = IF rm = "raise" THEN @ + 1 ELSE @]
       IN /\ ~stale => rm = "removed"
          /\ rm = "raise" => xfer.rm_failed < MaxRemoveFailures
          /\ IF raised
             THEN xfer' = AttemptFails(x, xfer.status, 0, "write")
             ELSE xfer' = [x EXCEPT !.pc = AfterWrite, !.written = existing1 + k]

\* lines 449-463: size verification
T_Verify ==
    /\ xfer.pc = "verify"
    /\ LET total_expected == TotalExpected(xfer.content_range, xfer.expected_len)
           final_size == GetSizeOr(xfer.tmp, xfer.written)
           x == [xfer EXCEPT !.steps = Append(@, "verify")]
       IN IF SizeMismatch(total_expected, final_size)
          THEN xfer' = AttemptFails(x, xfer.status, final_size, "mismatch")
          ELSE xfer' = [x EXCEPT !.pc = "publish"]

\* lines 465-476: os.replace(tmp_path, save_path); when it raises, the
\* destination is removed and the replace tried again
PublishOutcomes == {"replaced", "raise"}
T_Publish(o) ==
    /\ xfer.pc = "publish"
    /\ LET final_size == GetSizeOr(xfer.tmp, xfer.written)
           x == [xfer EXCEPT !.steps = Append(@, "publish")]
       IN IF o = "replaced"
          THEN xfer' = [x EXCEPT !.pc = "returned", !.dest = xfer.tmp,
                                 !.tmp = NoFile, !.why = "ok",
                                 !.won = @ \cup {XCandidate},
                                 !.ret = [ok |-> TRUE, status |-> xfer.status,
                                          size |-> final_size]]
          ELSE xfer' = AttemptFails([x EXCEPT !.dest = NoFile], xfer.status,
                                    final_size, "replace")

\* download_with_backoff after a failed attempt: last_status = status, then
\* the next attempt, the next candidate, or return False, last_status, 0, 0.0
T_Loop ==
    /\ xfer.pc = "failed"
    /\ LET x == [xfer EXCEPT !.last_status = xfer.ret.status]
       IN IF MoreAttempts(xfer.attempt)
          THEN xfer' = [x EXCEPT !.pc = "begin", !.attempt = @ + 1]
          ELSE IF xfer.candidate < Len(xfer.candidates)
          THEN xfer' = [x EXCEPT !.pc = "begin", !.candidate = @ + 1, !.attempt = 1]
          ELSE xfer' = [x EXCEPT !.pc = "returned",
                                 !.ret = [ok |-> FALSE, status |-> x.last_status,
                                          size |-> 0]]

pipeline ==
    << download_workers, invocations, run, thumbs_by_page, db, files, failed_log,
       stats, all_tasks, task_q, unfinished, pc, cur, res, dup, put_i, put_attempt,
       retry_list, retry_i, retry_attempt, terminal, gets, lookups, prev, pages, transfers, timeouts,
       store, single >>

InitTransfer ==
    /\ Init
    /\ download_workers = DOWNLOAD_WORKERS
    /\ thumbs_by_page = [p \in {1} |-> << 1 >>]
    /\ pages = << 1 >>

NextTransfer ==
    /\ \/ \E u \in XferUrls, s \in 0..MaxLen, old \in BOOLEAN :
             \E len \in [{Candidates(u)[i] : i \in 1..Len(Candidates(u))} -> 0..MaxLen] :
                T_Call(u, len, s, old)
       \/ T_Begin
       \/ \E o \in HeadOutcomes : T_Head(o)
       \/ \E o \in GetOutcomes : T_Get(o)
       \/ \E k \in 0..MaxLen, raised \in BOOLEAN : T_Write(k, raised)
       \/ T_Verify
       \/ \E o \in PublishOutcomes : T_Publish(o)
       \/ T_Loop
    /\ UNCHANGED << pipeline, last_insert, gen, plock >>

SpecTransfer == InitTransfer /\ [][NextTransfer]_vars

\* the attempt found a staging file of size S, the probe returned L, 0 < S < L
ResumeCase ==
    /\ xfer.pc \in {"write", "verify", "publish", "failed", "returned"}
    /\ xfer.why # "get" /\ xfer.why # "status"
    /\ Len(xfer.s0) > 0
    /\ xfer.expected_len # NoLen
    /\ Len(xfer.s0) < xfer.expected_len

\* the server answered the ranged GET with the remaining L - S bytes
GotRemaining ==
    /\ xfer.status = 206
    /\ xfer.pc \in {"verify", "publish", "failed", "returned"}
    /\ xfer.why # "write"
    /\ Len(xfer.recv) = xfer.expected_len - Len(xfer.s0)

\* C6: an attempt that finds S bytes in the staging file, 0 < S < L with L
\* the content length of the probe, sends the GET with Range: bytes=S-, appends
\* the body of the answer to the staging file, and when the server has sent
\* the remaining L - S bytes the size verification passes and the file
\* published at the destination is the S old bytes followed by the new ones,
\* L bytes in all.
C6_ResumeFromStaging ==
    ResumeCase =>
        /\ xfer.range_from = Len(xfer.s0)
        /\ xfer.status = 206 /\ xfer.pc \in {"verify", "publish"}
              => xfer.tmp.bytes = xfer.s0 \o xfer.recv
        /\ GotRemaining =>
              /\ xfer.why # "mismatch"
              /\ xfer.pc = "returned" /\ xfer.ret.ok =>
                    /\ xfer.dest.present
                    /\ xfer.dest.bytes = xfer.s0 \o xfer.recv
                    /\ Len(xfer.dest.bytes) = xfer.expected_len
                    /\ xfer.ret.size = xfer.expected_len

\* C6 witness: a resumed attempt has published a file of L bytes
C6_ResumedAndPublished ==
    /\ ResumeCase
    /\ GotRemaining
    /\ xfer.pc = "returned"
    /\ xfer.ret.ok
    /\ xfer.range_from > 0
    /\ Len(xfer.dest.bytes) = xfer.expected_len

\* the known expected total of the attempt, NoLen when there is none
XTotal == TotalExpected(xfer.content_range, xfer.expected_len)
\* the attempt has just gone through its size verification
JustVerified ==
    /\ xfer.pc \in {"publish", "failed"}
    /\ xfer.steps # << >>
    /\ xfer.steps[Len(xfer.steps)] = "verify"

\* C15: when the staging file after streaming differs in size from the known
\* expected total, the attempt returns failure, the staging file stays with
\* the bytes written so far, and the destination is as it was.
C15_MismatchFailsKeepsStaging ==
    (JustVerified /\ XTotal # NoLen /\ GetSizeOr(xfer.tmp, 0) # XTotal)
    => /\ xfer.pc = "failed"
       /\ ~xfer.ret.ok
       /\ xfer.tmp.present
       /\ xfer.dest = xfer.d0

\* the steps of one attempt, in the order of the code
AttemptOrder == << "head", "get", "write", "verify", "publish" >>

\* C16: the steps of an attempt are taken in the order probe, transfer,
\* verification, publish, and the destination gets a new file only in the
\* publish step of an attempt whose size verification has passed.
C16_VerifyBeforePublish ==
    /\ Len(xfer.steps) <= Len(AttemptOrder)
    /\ xfer.steps = SubSeq(AttemptOrder, 1, Len(xfer.steps))
    /\ xfer.pc = "publish" =>
          ~SizeMismatch(XTotal, GetSizeOr(xfer.tmp, xfer.written))
    /\ (xfer.pc \notin {"idle", "begin"} /\ xfer.dest.present /\ xfer.dest # xfer.d0)
          => /\ xfer.steps = AttemptOrder
             /\ xfer.pc = "returned"
             /\ xfer.ret.ok
             /\ ~SizeMismatch(XTotal, Len(xfer.dest.bytes))

\* C16 witness: a file was published by an attempt that had a total to verify
C16_PublishedAfterVerify ==
    /\ xfer.pc = "returned"
    /\ xfer.ret.ok
    /\ xfer.steps = AttemptOrder
    /\ XTotal > 0
    /\ xfer.dest # xfer.d0

\* the attempts made on candidate c so far
TriedOn(c) == {k \in 1..Len(xfer.tried) : xfer.tried[k] = c}

\* C17: for a .jpg or .png URL there are at most MAX_DOWNLOAD_RETRIES attempts
\* on the URL, all of them before any attempt on the alternate extension, at
\* most MAX_DOWNLOAD_RETRIES on the alternate, nothing else; the call returns
\* at its first successful attempt and attempts nothing after returning.
C17_BoundedOrderedAttempts ==
    (xfer.pc # "idle" /\ xfer.url.ext \in {"jpg", "png"})
    => /\ \A k \in 1..Len(xfer.tried) : xfer.tried[k] \in {xfer.url, AltUrl(xfer.url)}
       /\ \A i \in TriedOn(xfer.url), j \in TriedOn(AltUrl(xfer.url)) : i < j
       /\ Cardinality(TriedOn(xfer.url)) <= MAX_DOWNLOAD_RETRIES
       /\ Cardinality(TriedOn(AltUrl(xfer.url))) <= MAX_DOWNLOAD_RETRIES
       /\ Len(xfer.tried) <= 2 * MAX_DOWNLOAD_RETRIES
       /\ xfer.ret.ok => xfer.pc = "returned"
       /\ xfer.pc = "returned" => ~ENABLED T_Begin

\* C17 witness: the call has failed after all its attempts on both extensions
C17_AllAttemptsUsed ==
    /\ xfer.pc = "returned"
    /\ ~xfer.ret.ok
    /\ Cardinality(TriedOn(xfer.url)) = MAX_DOWNLOAD_RETRIES
    /\ Cardinality(TriedOn(AltUrl(xfer.url))) = MAX_DOWNLOAD_RETRIES

\* ======================================================================
\* generate_candidates_from_thumb alone
\* ======================================================================
MAX_PAGES_TO_EXPAND == 8
\* the highest page index _p<k> a thumbnail URL carries
MaxPageIndex == 1

\* A URL is <host>/<form path>/<date>/<work>_p<p><form suffix>.<ext>:
\*   square    /c/250x250_80_a2/img-master/img/..._p<p>_square1200.jpg
\*   custom    /c/250x250_80_a2/custom-thumb/img/..._p<p>_custom1200.jpg
\*   master    /c/600x1200_90/img-master/img/..._p<p>_master1200.jpg
\*   original  /img-original/img/..._p<p>.<ext>
\*   plain     a URL without /img/, _p<k> or an image extension at its end
PXIMG == "https://i.pximg.net"
TEST_BASE == "https://www.pixiv.net"
Link(host, form, p, ext) == [host |-> host, form |-> form, p |-> p, ext |-> ext]
ThumbUrls ==
    {Link(h, f, p, "jpg") : h \in {PXIMG, "//i.pximg.net", "/"},
                            f \in {"square", "custom", "master"}, p \in 0..MaxPageIndex}
    \cup {Link(h, "original", p, e) : h \in {PXIMG, "//i.pximg.net", "/"},
                                      p \in 0..MaxPageIndex,
                                      e \in {"jpg", "png", "webp", "gif"}}
    \cup {Link(h, "plain", 0, "svg") : h \in {PXIMG, "//i.pximg.net", "/"}}

\* startswith('//') -> 'https:' + thumb_url; startswith('/') -> urljoin(TEST_BASE_URL, .)
Absolute(t) ==
    IF t.host = "//i.pximg.net" THEN [t EXCEPT !.host = PXIMG]
    ELSE IF t.host = "/" THEN [t EXCEPT !.host = TEST_BASE]
    ELSE t

Original(p, ext) == Link(PXIMG, "original", p, ext)

\* the five regular expressions of to_original_url, tried in order; each
\* result is https://i.pximg.net/img-original/img/<path>_p0.jpg
to_original_url(t) ==
    IF t.host = PXIMG /\ t.form = "square" THEN Original(0, "jpg")
    ELSE IF t.host = PXIMG /\ t.form = "custom" THEN Original(0, "jpg")
    ELSE IF t.host = PXIMG /\ t.form = "master" /\ t.p = 0 THEN Original(0, "jpg")
    ELSE IF t.form # "plain" /\ t.p = 0 THEN Original(0, "jpg")
    ELSE t

\* original_url.replace('.jpg', '.png') and the reverse
SwapExt(u) ==
    IF u.ext = "jpg" THEN << [u EXCEPT !.ext = "png"] >>
    ELSE IF u.ext = "png" THEN << [u EXCEPT !.ext = "jpg"] >>
    ELSE << >>

RECURSIVE ExpandPages(_, _, _)
\* for i in range(0, max_pages): base_p{i}.jpg, base_p{i}.png
ExpandPages(base, i, max_pages) ==
    IF i >= max_pages THEN << >>
    ELSE << [base EXCEPT !.p = i, !.ext = "jpg"], [base EXCEPT !.p = i, !.ext = "png"] >>
         \o ExpandPages(base, i + 1, max_pages)

RECURSIVE RepeatPage(_, _, _)
\* for i in range(0, max_pages): the replace of _p{i} by _p{i} changes nothing,
\* so every round appends the same two URLs
RepeatPage(basepath, i, max_pages) ==
    IF i >= max_pages THEN << >>
    ELSE << [basepath EXCEPT !.ext = "jpg"], [basepath EXCEPT !.ext = "png"] >>
         \o RepeatPage(basepath, i + 1, max_pages)

\* re.search(r'(.+?)_p(\d+)\.(jpg|png|webp|gif)$', thumb_url, re.I)
MatchesMultiPage(t) == t.form = "original"
\* re.search(r'/img-master/img/(\d+/\d+/\d+/\d+/\d+/\d+/\d+_p\d+)', thumb_url)
MatchesDatePath(t) == t.form \in {"square", "master"}
\* a last branch that appends nothing
UnmatchedNothing(t) == << >>
\* else: candidates.append(thumb_url)
Unmatched(t) == << t >>

\* the list candidates before the deduplicating pass
RawCandidates(thumb_url, max_pages) ==
    LET t == Absolute(thumb_url)
        original_url == to_original_url(t)
        first == IF original_url # t THEN << original_url >> \o SwapExt(original_url)
                 ELSE << >>
        rest == IF MatchesMultiPage(t) THEN ExpandPages(t, 0, max_pages)
                ELSE IF MatchesDatePath(t)
                     THEN RepeatPage(Original(t.p, "jpg"), 0, max_pages)
                ELSE Unmatched(t)
    IN first \o rest

\* a list that keeps every entry, seen or not
NeverSeen(c, seen) == TRUE
\* if c not in seen
NotSeen(c, seen) == c \notin seen

G_Call(t, max_pages) ==
    /\ gen.pc = "idle"
    /\ gen' = [pc |-> "loop", thumb_url |-> t, max_pages |-> max_pages,
               candidates |-> RawCandidates(t, max_pages), i |-> 1, seen |-> {},
               out |-> << >>]

\* one round of: for c in candidates: if c not in seen: out.append(c); seen.add(c)
G_Next ==
    /\ gen.pc = "loop"
    /\ gen.i <= Len(gen.candidates)
    /\ LET c == gen.candidates[gen.i]
       IN gen' = IF NotSeen(c, gen.seen)
                 THEN [gen EXCEPT !.out = Append(@, c), !.seen = @ \cup {c}, !.i = @ + 1]
                 ELSE [gen EXCEPT !.i = @ + 1]

\* return out
G_Return ==
    /\ gen.pc = "loop"
    /\ gen.i > Len(gen.candidates)
    /\ gen' = [gen EXCEPT !.pc = "returned"]

\* the caller takes the list; the next call starts from scratch
G_Done ==
    /\ gen.pc = "returned"
    /\ gen' = GenIdle

InitCandidates ==
    /\ Init
    /\ download_workers = DOWNLOAD_WORKERS
    /\ thumbs_by_page = [p \in {1} |-> << 1 >>]
    /\ pages = << 1 >>

NextCandidates ==
    /\ \/ \E t \in ThumbUrls, max_pages \in 1..MAX_PAGES_TO_EXPAND : G_Call(t, max_pages)
       \/ G_Next
       \/ G_Return
       \/ G_Done
    /\ UNCHANGED << pipeline, last_insert, xfer, plock >>

SpecCandidates == InitCandidates /\ [][NextCandidates]_vars

\* positions of candidates that hold the first occurrence of their entry
FirstSeenAt(cands) == {k \in 1..Len(cands) : \A j \in 1..(k - 1) : cands[j] # cands[k]}
\* the n-th smallest member of a set of positions
Nth(S, n) == CHOOSE k \in S : Cardinality({j \in S : j <= k}) = n

\* C20: the list generate_candidates_from_thumb returns for a non-empty
\* thumbnail URL has no duplicate entry, and its entries are the candidates
\* in the order of their first occurrence.
C20_DedupKeepsFirstSeenOrder ==
    gen.pc = "returned" =>
        LET first == FirstSeenAt(gen.candidates)
        IN /\ \A a, b \in 1..Len(gen.out) : gen.out[a] = gen.out[b] => a = b
           /\ Len(gen.out) = Cardinality(first)
           /\ \A n \in 1..Len(gen.out) : gen.out[n] = gen.candidates[Nth(first, n)]

\* a call with the default max_pages returned after dropping the two repeated
\* candidates of a _p0.png thumbnail
C20_DuplicatesDropped ==
    /\ gen.pc = "returned"
    /\ gen.max_pages = MAX_PAGES_TO_EXPAND
    /\ Len(gen.candidates) = 2 * MAX_PAGES_TO_EXPAND + 2
    /\ Len(gen.out) = 2 * MAX_PAGES_TO_EXPAND

\* ======================================================================
\* ProgressStats alone: threads calling its methods concurrently
\* ======================================================================
\* Each method body runs inside `with self.lock`. `self.x += n` is a read of
\* the attribute, an addition and a write back, and snapshot() reads the four
\* attributes one after the other; a thread switch can fall between any two
\* of these.
StatOps == {"total_queued", "success", "failed", "skipped", "snapshot"}

\* a lock that never makes a caller wait
LockAlwaysFree(holder) == TRUE
\* threading.Lock.acquire() goes through when no thread holds the lock
LockFree(holder) == holder = NoHolder

SetThread(t, r) == plock' = [plock EXCEPT !.th[t] = r]

\* a thread calls inc_total(1), inc_success(), inc_failed(), inc_skipped() or snapshot()
S_Call(t, op) ==
    /\ plock.th[t].pc = "idle"
    /\ plock.calls < MaxCalls
    /\ plock' = [plock EXCEPT !.th[t] = [pc |-> "acquire", op |-> op, tmp |-> 0,
                                         snap |-> << >>],
                              !.calls = @ + 1]
    /\ UNCHANGED stats

\* with self.lock: __enter__
S_Acquire(t) ==
    /\ plock.th[t].pc = "acquire"
    /\ LockFree(plock.holder)
    /\ plock' = [plock EXCEPT !.holder = t,
                              !.th[t].pc = IF plock.th[t].op = "snapshot" THEN "read"
                                           ELSE "load"]
    /\ UNCHANGED stats

\* the read of self.<counter> in self.<counter> += 1
S_Load(t) ==
    /\ plock.th[t].pc = "load"
    /\ SetThread(t, [plock.th[t] EXCEPT !.pc = "store", !.tmp = stats[plock.th[t].op]])
    /\ UNCHANGED stats

\* the write of self.<counter> in self.<counter> += 1
S_Store(t) ==
    /\ plock.th[t].pc = "store"
    /\ stats' = [stats EXCEPT ![plock.th[t].op] = plock.th[t].tmp + 1]
    /\ SetThread(t, [plock.th[t] EXCEPT !.pc = "release"])

\* snapshot() evaluates the next element of the returned tuple
S_Read(t) ==
    /\ plock.th[t].pc = "read"
    /\ LET k == Len(plock.th[t].snap) + 1
       IN SetThread(t, [plock.th[t] EXCEPT
                           !.snap = Append(@, stats[Counters[k]]),
                           !.pc = IF k = Len(Counters) THEN "release" ELSE "read"])
    /\ UNCHANGED stats

\* with self.lock: __exit__, and the method returns
S_Release(t) ==
    /\ plock.th[t].pc = "release"
    /\ plock' = [plock EXCEPT
                    !.holder = NoHolder,
                    !.th[t].pc = "idle",
                    !.done = IF plock.th[t].op = "snapshot" THEN @
                             ELSE [@ EXCEPT ![plock.th[t].op] = @ + 1]]
    /\ UNCHANGED stats

InitStats ==
    /\ Init
    /\ download_workers = DOWNLOAD_WORKERS
    /\ thumbs_by_page = [p \in {1} |-> << 1 >>]
    /\ pages = << 1 >>

NextStats ==
    /\ \E t \in StatThreads :
          \/ \E op \in StatOps : S_Call(t, op)
          \/ S_Acquire(t)
          \/ S_Load(t)
          \/ S_Store(t)
          \/ S_Read(t)
          \/ S_Release(t)
    /\ UNCHANGED << download_workers, invocations, run, thumbs_by_page, db, files,
                    failed_log, all_tasks, task_q, unfinished, pc, cur, res, dup, put_i,
                    put_attempt, retry_list, retry_i, retry_attempt, terminal, gets,
                    lookups, prev, pages, transfers, last_insert, xfer, gen, timeouts,
                    store, single >>

SpecStats == InitStats /\ [][NextStats]_vars

\* threads that have written a counter and not yet returned from the method
Storing(c) == {t \in StatThreads : plock.th[t].pc = "release" /\ plock.th[t].op = c}
\* a snapshot() call about to return its tuple
Returning(t) == plock.th[t].pc = "release" /\ plock.th[t].op = "snapshot"

\* C18: no counter update is lost under any interleaving: each counter equals
\* the number of completed increment calls on it (plus the call that has
\* written and is about to return), and the tuple snapshot() returns is the
\* four counters as they are at the instant it returns.
C18_NoLostUpdate ==
    /\ \A k \in 1..Len(Counters) :
          stats[Counters[k]] = plock.done[Counters[k]] + Cardinality(Storing(Counters[k]))
    /\ \A t \in StatThreads :
          Returning(t) => plock.th[t].snap = [k \in 1..Len(Counters) |-> stats[Counters[k]]]

\* a snapshot is about to return a counter at 1 while another thread waits
\* for the lock to increment it
C18_SnapshotWhileWaiting ==
    \E t, o \in StatThreads :
        /\ Returning(t)
        /\ plock.th[t].snap[2] = 1
        /\ plock.th[o].pc = "acquire"
        /\ plock.th[o].op = "success"

\* ======================================================================
\* One task from the queue to its outcome, its transfer attempt by attempt
\* ======================================================================
\* The pipeline of one discovered pair, where download_with_backoff is not one
\* step but the attempts of the transfer above: the worker (and then the retry
\* pass) calls it, the attempts run, and the caller goes on with what it
\* returned.  The file the call leaves at save_path holds the body of the
\* candidate whose attempt succeeded.

\* what a worker's download_with_backoff call returned: from is the candidate
\* whose attempt succeeded, only404 says that every GET of the task's own URL
\* was answered 404, raised that the worker's log write failed after the call
TransferredBy(ret, md5, x, raised) ==
    [called |-> TRUE, ok |-> ret.ok, md5 |-> md5, from |-> x.candidates[x.candidate],
     only404 |-> x.only404, raised |-> raised]

\* the longest body the server holds for a candidate of a task
TaskLen == 1
\* the lengths the server holds for the candidates of URL u
ServerLens(u) == [{Candidates(u)[i] : i \in 1..Len(Candidates(u))} -> 1..TaskLen]

\* a worker that takes every returned call for a failure
AfterTransferFailed(ok) == "log_failed"
\* if ok: ... else: ...
AfterTransfer(ok) == IF ok THEN "md5" ELSE "log_failed"

\* ok, status, size, elapsed = download_with_backoff(session, url, save_path, referer)
W_Call(w) ==
    /\ pc[w] = "download"
    /\ \E len \in ServerLens(cur[w].url) : T_Call(cur[w].url, len, 0, FALSE)
    /\ Goto(w, "transfer")
    /\ UNCHANGED << download_workers, invocations, run, thumbs_by_page, db, files,
                    failed_log, stats, all_tasks, task_q, unfinished, cur, res, dup,
                    put_i, put_attempt, retry_list, retry_i, retry_attempt, terminal,
                    gets, lookups, prev, last_insert, pages, transfers, gen, plock,
                    timeouts, store, single >>

\* the call returns; the row is appended to the CSV log (which may raise), and
\* the worker branches on ok
W_Return(w) ==
    /\ pc[w] = "transfer"
    /\ xfer.pc = "returned"
    /\ xfer' = [XferIdle EXCEPT !.won = xfer.won]
    /\ \E c \in Contents(XCandidate), raised \in BOOLEAN :
          /\ files' = IF xfer.ret.ok THEN FsPublish(files, cur[w].save_path, c) ELSE files
          /\ transfers' = [transfers EXCEPT ![cur[w].id] =
                              TransferredBy(xfer.ret, IF xfer.ret.ok THEN c.md5 ELSE NoMd5,
                                            xfer, raised)]
          /\ ~xfer.ret.ok => c.md5 = 1
          /\ IF raised
             THEN /\ Goto(w, "except")
                  /\ UNCHANGED res
             ELSE /\ res' = [res EXCEPT ![w] =
                                [ok |-> xfer.ret.ok, status |-> xfer.ret.status,
                                 size |-> IF xfer.ret.ok THEN SizeOf(c.md5) ELSE 0,
                                 md5 |-> NoMd5]]
                  /\ Goto(w, AfterTransfer(xfer.ret.ok))
    /\ UNCHANGED << download_workers, invocations, run, thumbs_by_page, db, failed_log,
                    stats, all_tasks, task_q, unfinished, cur, dup, put_i, put_attempt,
                    retry_list, retry_i, retry_attempt, terminal, gets, lookups, prev,
                    last_insert, pages, gen, plock, timeouts, store, single >>

\* the retry pass calls download_with_backoff(session, url, save_file, referer)
R_Call ==
    /\ pc[Coord] = "r_download"
    /\ \E len \in ServerLens(cur[Coord].url) : T_Call(cur[Coord].url, len, 0, FALSE)
    /\ Goto(Coord, "r_transfer")
    /\ UNCHANGED << download_workers, invocations, run, thumbs_by_page, db, files,
                    failed_log, stats, all_tasks, task_q, unfinished, cur, res, dup,
                    put_i, put_attempt, retry_list, retry_i, retry_attempt, terminal,
                    gets, lookups, prev, last_insert, pages, transfers, gen, plock,
                    timeouts, store, single >>

\* the call returns to the retry pass: ok goes on to the md5 pass, a failure
\* or a raised exception to the next round or the next URL
R_Return ==
    /\ pc[Coord] = "r_transfer"
    /\ xfer.pc = "returned"
    /\ xfer' = [XferIdle EXCEPT !.won = xfer.won]
    /\ \E c \in Contents(XCandidate), raised \in BOOLEAN :
          /\ files' = IF xfer.ret.ok THEN FsPublish(files, cur[Coord].save_path, c)
                      ELSE files
          /\ ~xfer.ret.ok => c.md5 = 1 /\ ~raised
          /\ IF xfer.ret.ok /\ ~raised
             THEN /\ res' = [res EXCEPT ![Coord] =
                                [ok |-> TRUE, status |-> xfer.ret.status,
                                 size |-> SizeOf(c.md5), md5 |-> NoMd5]]
                  /\ Goto(Coord, "md5")
                  /\ UNCHANGED << retry_i, retry_attempt, cur, timeouts, store, single >>
             ELSE /\ IF retry_attempt < MAX_RETRY_ROUNDS
                     THEN /\ retry_attempt' = retry_attempt + 1
                          /\ Goto(Coord, "r_download")
                          /\ UNCHANGED << retry_i, cur, timeouts, store, single >>
                     ELSE R_Advance
                  /\ UNCHANGED res
    /\ UNCHANGED << download_workers, invocations, run, thumbs_by_page, db, failed_log,
                    stats, all_tasks, task_q, unfinished, dup, put_i, put_attempt,
                    retry_list, terminal, gets, lookups, prev, last_insert, pages,
                    transfers, gen, plock, timeouts, store, single >>

\* one step of the running download_with_backoff call
TransferStep ==
    /\ \/ T_Begin
       \/ \E o \in HeadOutcomes : T_Head(o)
       \/ \E o \in GetOutcomes : T_Get(o)
       \/ \E k \in 0..TaskLen, raised \in BOOLEAN : T_Write(k, raised)
       \/ T_Verify
       \/ \E o \in PublishOutcomes : T_Publish(o)
       \/ T_Loop
    /\ UNCHANGED << pipeline, last_insert, gen, plock >>

\* one worker, one invocation, one discovered pair
InitTask ==
    /\ InitFor([workers |-> 1, runs |-> 1, pages |-> << 1 >>])
    /\ thumbs_by_page = [p \in {1} |-> << 1 >>]

NextTask ==
    \/ C_Plan \/ C_Put \/ C_Poll \/ C_Join
    \/ \E w \in Workers :
          /\ Alive
          /\ \/ W_Get(w) \/ W_Timeout(w) \/ W_Exists(w) \/ W_Call(w) \/ W_Return(w)
             \/ Md5Find(w) \/ Record(w) \/ W_IncSuccess(w) \/ W_LogFailed(w)
             \/ W_IncFailed(w) \/ W_Finally(w)
    \/ TransferStep
    \/ R_Read \/ R_Call \/ R_Return \/ Md5Find(Coord) \/ Record(Coord) \/ R_Next

SpecTask == InitTask /\ [][NextTask]_vars

\* task i succeeded through the alternate extension: every GET of its own URL
\* was answered 404, the attempt on the counterpart succeeded, and the worker's
\* own log write went through
FallbackWon(i) ==
    /\ transfers[i].called /\ transfers[i].ok
    /\ transfers[i].from = AltUrl(all_tasks[i].url)
    /\ transfers[i].only404
    /\ ~transfers[i].raised
InFailedLog(u) == \E k \in 1..Len(failed_log) : failed_log[k] = u

\* C12: when every attempt on a task's .jpg URL is answered 404 and the .png
\* counterpart is answered 200 and its body is published at the destination,
\* download_with_backoff returns success with that status; the worker counts the task as succeeded and
\* inserts a ledger row for its URL; the task is never counted failed and its
\* URL never written to the failure log.
C12_FallbackSucceeds ==
    /\ ( /\ xfer.pc = "returned"
         /\ xfer.only404
         /\ XCandidate = AltUrl(xfer.url)
         /\ xfer.status = 200
         /\ xfer.dest.present )
       => /\ xfer.ret.ok /\ xfer.ret.status = 200
          /\ xfer.ret.size = Len(xfer.dest.bytes)
          /\ \A k \in 1..Len(xfer.dest.bytes) : xfer.dest.bytes[k].src = AltUrl(xfer.url)
    /\ \A i \in 1..Len(transfers) :
          FallbackWon(i) =>
             /\ "failed" \notin terminal[i]
             /\ "skipped" \notin terminal[i]
             /\ ~InFailedLog(all_tasks[i].url)
             /\ RunEnded => /\ terminal[i] = {"success"}
                            /\ DbExists(db, all_tasks[i].url)
                            /\ stats.success = 1 /\ stats.failed = 0

\* the run ended after the task succeeded through the .png fallback
C12_FallbackCounted ==
    /\ RunEnded
    /\ Len(transfers) = 1
    /\ FallbackWon(1)
    /\ all_tasks[1].url.ext = "jpg"
    /\ stats.success = 1

\* C13: when a task succeeds through the alternate-extension fallback, the
\* extension of the saved file's name is the extension of the candidate URL
\* that was downloaded.
C13_SavedExtensionMatches ==
    \A i \in 1..Len(transfers) :
        ( /\ transfers[i].called /\ transfers[i].ok
          /\ transfers[i].from = AltUrl(all_tasks[i].url)
          /\ FileExists(files, all_tasks[i].save_path) )
        => all_tasks[i].save_path.ext = transfers[i].from.ext

\* C14: a ledger row exists for URL u only if a transfer of exactly u has
\* completed successfully, in the worker loop and in the retry pass alike.
C14_RowOnlyForTransferredUrl ==
    \A r \in db : r.url \in xfer.won

\* ======================================================================
\* Further properties of generate_candidates_from_thumb
\* ======================================================================
\* the absolute form of the call's argument
GenThumb == Absolute(gen.thumb_url)
\* none of the patterns applies: to_original_url returns its argument and
\* neither the multi-page nor the date-path pattern matches
NoPattern(t) ==
    /\ to_original_url(t) = t
    /\ ~MatchesMultiPage(t)
    /\ ~MatchesDatePath(t)

\* C21: for a thumbnail URL that matches none of the rewrite patterns the
\* returned list is not empty and contains the normalized (absolute) URL.
C21_UnmatchedReturnsInput ==
    (gen.pc = "returned" /\ NoPattern(GenThumb))
    => /\ gen.out # << >>
       /\ \E k \in 1..Len(gen.out) : gen.out[k] = GenThumb
       /\ GenThumb.host \in {PXIMG, TEST_BASE}

\* a site-relative thumbnail that matches no pattern came back as its absolute URL
C21_RelativeUnmatched ==
    /\ gen.pc = "returned"
    /\ gen.thumb_url.host = "/"
    /\ NoPattern(GenThumb)
    /\ gen.out = << GenThumb >>

\* ======================================================================
\* Further properties of the transfer
\* ======================================================================
\* download_with_backoff has returned False, last_status, 0, 0.0
AllAttemptsFailed == xfer.pc = "returned" /\ ~xfer.ret.ok

\* C22: when download_with_backoff fails on every attempt, the status it
\* returns is the most recent non-success status code received over all the
\* attempts on both extensions.
C22_ReturnsLastErrorStatus ==
    AllAttemptsFailed => xfer.ret.status = xfer.last_bad

\* the attempt found a partial staging file, the GET was answered 200 and the
\* body has just been streamed
FullBodyOverPartial ==
    /\ xfer.steps # << >>
    /\ xfer.steps[Len(xfer.steps)] = "write"
    /\ xfer.status = 200
    /\ xfer.s0 # << >>

\* C23: when a partial staging file exists and the GET is answered with a full
\* (200) body, the stale partial is discarded: after streaming the staging file
\* holds exactly the bytes received of the new body and none of the earlier
\* partial.
C23_StalePartialDiscarded ==
    FullBodyOverPartial => xfer.tmp.bytes = xfer.recv

\* ======================================================================
\* Further properties of the pipeline
\* ======================================================================
\* the coordinator has not yet started the retry pass of this run
BeforeRetry == pc[Coord] \in {"put", "poll", "join"}

\* C24: a task counted as failed leaves no ledger row for its URL and has its
\* URL in the failure log, so that the retry pass considers it.
C24_FailedIsLoggedNotRecorded ==
    BeforeRetry =>
        \A i \in 1..Len(terminal) :
            "failed" \in terminal[i] =>
                /\ InFailedLog(all_tasks[i].url)
                /\ ~DbExists(db, all_tasks[i].url)

\* planning is over and nothing has been put on the queue yet, or planning
\* found nothing to download and the run returned at once
JustPlanned ==
    \/ pc[Coord] = "put" /\ put_i = 1 /\ put_attempt = 0
    \/ pc[Coord] = "done" /\ all_tasks = << >>
\* the first candidate of a pair that the ledger does not contain (0: none)
FirstFresh(t) == FirstNew(generate_candidates_from_thumb(t), db)
\* positions in the page's discovery list of the pairs with such a candidate
FreshPairs(page) ==
    {i \in 1..Len(thumbs_by_page[page]) : FirstFresh(thumbs_by_page[page][i]) # 0}
\* the tasks planned for pair i of a page
TasksOf(page, i) ==
    {k \in 1..Len(all_tasks) :
        all_tasks[k].save_path.page = page /\ all_tasks[k].save_path.seq = i}

\* C25: for each discovered pair the coordinator plans exactly one task, for
\* the first candidate in resolver order that the ledger does not contain; a
\* pair whose candidates are all in the ledger yields no task and changes no
\* counter.
C25_OneTaskPerPair ==
    JustPlanned =>
        /\ \A i \in 1..Len(thumbs_by_page[1]) :
              LET t == thumbs_by_page[1][i]
              IN IF i \in FreshPairs(1)
                 THEN /\ Cardinality(TasksOf(1, i)) = 1
                      /\ \A k \in TasksOf(1, i) :
                            all_tasks[k].url =
                               generate_candidates_from_thumb(t)[FirstFresh(t)]
                 ELSE TasksOf(1, i) = {}
        /\ stats = [total_queued |-> Cardinality(FreshPairs(1)), success |-> 0,
                    failed |-> 0, skipped |-> 0]

\* ------------------------------------------------------------- planning
\* The planning loop of run_full_simulation on its own: any page list of up to
\* MaxPageList page numbers out of 1..MaxPageNum, any discovery result of up to
\* MaxPagePairs pairs per page, any set of URLs already in the ledger.
MaxPageNum == 2
MaxPageList == 2
MaxPagePairs == 2
PageNums == 1..MaxPageNum
PageLists == UNION {[1..n -> PageNums] : n \in 1..MaxPageList}
PageThumbs == UNION {[1..n -> Works] : n \in 0..MaxPagePairs}
\* the row an earlier run left for a URL
OldRow(u) == NewRow(u, RetryPath(u), 200, 1, NoMd5)
AssetUrls == {Url(w, e) : w \in Works, e \in {"jpg", "png"}}

InitPlan ==
    /\ download_workers = DOWNLOAD_WORKERS
    /\ invocations = 1
    /\ pages \in PageLists
    /\ run = 1
    /\ thumbs_by_page \in [PageNums -> PageThumbs]
    /\ \E known \in SUBSET AssetUrls : db = {OldRow(u) : u \in known}
    /\ transfers = << >>
    /\ gen = GenIdle
    /\ plock = LockIdle
    /\ files = << >>
    /\ failed_log = << >>
    /\ stats = NewStats
    /\ all_tasks = << >>
    /\ task_q = << >>
    /\ unfinished = 0
    /\ pc = [t \in Threads |-> IF t = Coord THEN "start" ELSE "idle"]
    /\ cur = [t \in Threads |-> NoTask]
    /\ res = [t \in Threads |-> NoRes]
    /\ dup = [t \in Threads |-> NoPath]
    /\ put_i = 0
    /\ put_attempt = 0
    /\ retry_list = << >>
    /\ retry_i = 0
    /\ retry_attempt = 0
    /\ terminal = << >>
    /\ gets = 0
    /\ lookups = << >>
    /\ prev = [stats |-> NewStats, paths |-> {}]
    /\ last_insert = << >>
    /\ xfer = XferIdle
    /\ timeouts = [w \in Workers |-> 0]
    /\ store = StoreClosed
    /\ single = SingleIdle

NextPlan == C_Plan

SpecPlan == InitPlan /\ [][NextPlan]_vars

\* the planning loop has run
Planned == pc[Coord] # "start"
\* how many times the page list names a page
Visits(page) == Cardinality({j \in 1..Len(pages) : pages[j] = page})

\* C26: the sequence number in a task's file name is the 1-based position of
\* its pair in the discovery list of its own page: it restarts at 1 for every
\* page and does not depend on other pages or on whether earlier pairs of the
\* page were skipped.
C26_SeqIsPositionInPage ==
    Planned =>
        /\ \A k \in 1..Len(all_tasks) :
              LET p == all_tasks[k].save_path.page
                  s == all_tasks[k].save_path.seq
              IN /\ p \in PageNums
                 /\ s \in FreshPairs(p)
                 /\ thumbs_by_page[p][s] = all_tasks[k].url.w
        /\ \A p \in PageNums : \A i \in FreshPairs(p) :
              Cardinality(TasksOf(p, i)) = Visits(p)

\* C26 witness: the first pair of page 1 is skipped and its second pair is
\* numbered 2, while the first pair of page 2, planned after it, is numbered 1
C26_SkippedThenRestarted ==
    /\ Planned
    /\ pages = << 1, 2 >>
    /\ Len(thumbs_by_page[1]) = 2
    /\ FreshPairs(1) = {2}
    /\ Len(all_tasks) = 2
    /\ all_tasks[1].save_path.page = 1 /\ all_tasks[1].save_path.seq = 2
    /\ all_tasks[2].save_path.page = 2 /\ all_tasks[2].save_path.seq = 1

\* ------------------------------------------------------------- retry pass, with progress
\* the steps of retry_failed_urls_after_main_loop
RetryStep ==
    \/ R_Read \/ R_Download \/ Md5Find(Coord) \/ RemoveDup(Coord) \/ Record(Coord)
    \/ R_Next

\* The main thread is never blocked in the retry pass: every call it makes
\* there returns (requests with timeouts, a bounded sleep between rounds), and
\* the worker threads cannot starve it.
\* One invocation: a single worker on a page of up to MaxPairs pairs, and the
\* full pool on a page list that names its page twice (the failure log can
\* then hold a URL twice).
RetryConfigs ==
    {[workers |-> 1, runs |-> 1, pages |-> << 1 >>],
     [workers |-> DOWNLOAD_WORKERS, runs |-> 1, pages |-> << 1, 1 >>]}
InitRetry == \E cfg \in RetryConfigs : InitFor(cfg)
NextRetry ==
    \/ CoordStep
    \/ \E w \in Workers : Alive /\ WorkerStep(w)
SpecRetry == InitRetry /\ [][NextRetry]_vars /\ WF_vars(RetryStep)

\* the coordinator is inside the loop over actually_failed
InRetryLoop == pc[Coord] = "r_download" \/ (Recording(Coord) \/ pc[Coord] = "r_next")
NoRepeat(q) == \A i, j \in 1..Len(q) : q[i] = q[j] => i = j

\* a round of the retry pass is about to call download_with_backoff: the URL is
\* the current entry of a duplicate-free list, the ledger does not contain it
\* (so no round follows a success), and the round is one of max_retries
RetryRoundOk ==
    pc[Coord] = "r_download" =>
        /\ NoRepeat(retry_list)
        /\ retry_i \in 1..Len(retry_list)
        /\ cur[Coord].url = retry_list[retry_i]
        /\ ~DbExists(db, cur[Coord].url)
        /\ retry_attempt \in 1..MAX_RETRY_ROUNDS
\* the pass goes through the list front to back and counts the rounds of a URL
\* upwards: no entry is taken up again
RetryForward ==
    InRetryLoop /\ pc'[Coord] # "done" =>
        /\ retry_list' = retry_list
        /\ \/ retry_i' = retry_i /\ retry_attempt' >= retry_attempt
           \/ retry_i' = retry_i + 1 /\ retry_attempt' = 1
        /\ pc[Coord] = "r_next" /\ pc'[Coord] # "r_next" => retry_i' = retry_i + 1

Remain == {failed_log[k] : k \in 1..Len(failed_log)} \ {r.url : r \in db}
\* the pass has read the log and goes on
PassDecides == pc[Coord] = "retry" /\ pc'[Coord] # "retry"
RetryDecision ==
    PassDecides =>
        IF Remain = {}
        THEN /\ failed_log' = << >>
             /\ pc'[Coord] = "done"
             /\ files' = files /\ db' = db
        ELSE /\ failed_log' = failed_log
             /\ pc'[Coord] = "r_download"
LogKeptInLoop == InRetryLoop => failed_log' = failed_log

\* C28: when no URL of the failure log remains to retry (the log is empty or
\* every logged URL is in the ledger) the pass empties the log and makes no
\* transfer; when a URL remains the pass does not empty the log.
C28_LogClearedOnlyWhenNothingLeft ==
    [][RetryDecision /\ LogKeptInLoop]_vars

\* C28 witness: the pass ended without a round and emptied the log of a task
\* that failed while the ledger has a row for its URL
C28_ClearedLoggedUrl ==
    /\ pc[Coord] = "done"
    /\ retry_list = << >>
    /\ failed_log = << >>
    /\ \E i \in DOMAIN terminal : "failed" \in terminal[i] /\ DbExists(db, all_tasks[i].url)

\* a worker that has returned from download_worker_loop
Returned(w) == pc[w] = "exited"

\* C29 as stated: a worker leaves its loop only after more than one
\* consecutive dequeue timeout on an empty queue; a single empty timeout does
\* not make it exit.
C29_ExitsAfterRepeatedTimeouts ==
    \A w \in Workers : Returned(w) => timeouts[w] > 1

\* C29 as amended: a worker leaves its loop at its first dequeue timeout on
\* an empty queue; no worker waits on the queue with a timeout behind it.
C29_ExitsAtFirstTimeout ==
    \A w \in Workers :
        /\ Returned(w) => timeouts[w] = 1
        /\ pc[w] = "get" => timeouts[w] = 0

\* C29 witness: a worker has returned after its one timeout, with all tasks of
\* the run dequeued before
C29_ReturnedAfterWork ==
    \E w \in Workers :
        /\ Returned(w)
        /\ timeouts[w] = 1
        /\ gets = Len(all_tasks)
        /\ gets > 1

\* the staging file of a transfer: tmp_path = save_path + ".!tmp"
Staging(t) == cur[t].save_path
\* worker w is inside download_with_backoff for the task it holds
Transferring(w) == pc[w] = "download"
NoSharedDestination ==
    \A i, j \in 1..Len(all_tasks) :
        i # j => all_tasks[i].save_path # all_tasks[j].save_path
NoSharedStaging ==
    \A v, w \in Workers :
        v # w /\ Transferring(v) /\ Transferring(w) => Staging(v) # Staging(w)

\* C30: for every page list and discovery result no two tasks planned in one
\* run have the same destination path, so at no time do two transfers in
\* different workers write the same staging file.
C30_OneTransferPerDestination == NoSharedDestination /\ NoSharedStaging

\* ======================================================================
\* Page expansion in generate_candidates_from_thumb
\* ======================================================================
\* the thumbnail reference of the call carries a _p<N> page index
HasPageIndex == gen.thumb_url.form # "plain"
\* the returned list has the full-resolution URL of page i with extension e
ListsPage(i, e) ==
    \E k \in 1..Len(gen.out) :
        gen.out[k].form = "original" /\ gen.out[k].p = i /\ gen.out[k].ext = e

\* C31: for a thumbnail reference that carries a _p<N> page index the returned
\* list has, for every page index i in [0, max_pages), a full-resolution URL
\* with page index i in the .jpg and in the .png variant.
C31_AllPagesBothExtensions ==
    gen.pc = "returned" /\ HasPageIndex =>
        \A i \in 0..(gen.max_pages - 1) : ListsPage(i, "jpg") /\ ListsPage(i, "png")

\* ======================================================================
\* DBManager on a store of an earlier version
\* ======================================================================
\* A row of the images table is a function from the table's columns to values.
\* CREATE TABLE IF NOT EXISTS images (url ..., saved_path, status, size, ts)
BaseColumns == {"url", "saved_path", "status", "size", "ts"}
Md5Column == "md5"

\* a row as an earlier version wrote it, and as the current version writes it
OldFormatRow(u, status) ==
    [url |-> u, saved_path |-> RetryPath(u), status |-> status, size |-> SizeOf(1),
     ts |-> 1]
WithMd5(r, md5) == [c \in DOMAIN r \cup {Md5Column} |-> IF c = Md5Column THEN md5 ELSE r[c]]

\* the tables a sqlite file can hold for at most one row per url (PRIMARY KEY)
TablesOf(rowsOfUrl) ==
    {UNION {f[u] : u \in LedgerUrls} :
        f \in [LedgerUrls -> {{}} \cup {{r} : r \in UNION {rowsOfUrl[u] : u \in LedgerUrls}}]}
OldRowsOf(u) == {OldFormatRow(u, st) : st \in {200, 206}}
\* no file or no table yet; a table without the md5 column; a table with it
StoreFiles ==
    {[columns |-> {}, rows |-> {}]}
    \cup {[columns |-> BaseColumns, rows |-> rs] :
            rs \in {t \in TablesOf([u \in LedgerUrls |-> OldRowsOf(u)]) :
                       \A q, r \in t : q.url = r.url => q = r}}
    \cup {[columns |-> BaseColumns \cup {Md5Column}, rows |-> {WithMd5(r, 1) : r \in rs}] :
            rs \in {t \in TablesOf([u \in LedgerUrls |-> {OldFormatRow(u, 200)}]) :
                       \A q, r \in t : q.url = r.url => q = r}}

\* CREATE TABLE IF NOT EXISTS images (...): a table that exists stays as it is
CreateTableIfNotExists(f) ==
    IF f.columns = {} THEN [columns |-> BaseColumns, rows |-> {}] ELSE f

\* (mutant: the table is created anew with the added column)
AddColumnDropRows(rows, default) == {}

\* ALTER TABLE images ADD COLUMN md5 TEXT DEFAULT '': every row gets the default
AddColumn(rows, default) == {WithMd5(r, default) : r \in rows}

\* _migrate_db_schema: PRAGMA table_info(images); if 'md5' not in columns: ALTER
MigrateSchema(f) ==
    IF Md5Column \notin f.columns
    THEN [columns |-> f.columns \cup {Md5Column}, rows |-> AddColumn(f.rows, NoMd5)]
    ELSE f

\* DBManager(path): _init on the file f
M_Open(f) ==
    /\ store.pc = "closed"
    /\ LET g == MigrateSchema(CreateTableIfNotExists(f))
       IN store' = [pc |-> "open", columns |-> g.columns, rows |-> g.rows,
                    old |-> f.rows, inserted |-> << >>, found |-> << >>]

\* the row INSERT OR REPLACE writes; ts is int(time.time()), later than any old row's
InsertedRow(a) ==
    [url |-> a.url, saved_path |-> a.saved_path, status |-> a.status, size |-> a.size,
     md5 |-> Md5OrEmpty(a.md5), ts |-> 2]

\* DBManager.insert on the opened store: the ALTER of lines 147-150 raises
\* OperationalError for the column that exists, then INSERT OR REPLACE
M_Insert(a) ==
    /\ store.pc = "open"
    /\ LET g == MigrateSchema([columns |-> store.columns, rows |-> store.rows])
       IN store' = [store EXCEPT
                      !.columns = g.columns,
                      !.rows = {r \in g.rows : r.url # a.url} \cup {InsertedRow(a)},
                      !.inserted = [u \in DOMAIN store.inserted \cup {a.url} |->
                                      IF u = a.url THEN a ELSE store.inserted[u]],
                      !.found = << >>]

\* DBManager.find_by_md5: fetchone() of SELECT url, saved_path ... WHERE md5 = ?
M_Find(md5) ==
    /\ store.pc = "open"
    /\ LET hits == {r \in store.rows : r.md5 = md5}
       IN \/ /\ hits = {}
             /\ store' = [store EXCEPT !.found = << [md5 |-> md5, hit |-> FALSE] >>]
          \/ \E r \in hits :
                store' = [store EXCEPT !.found = << [md5 |-> md5, hit |-> TRUE, url |-> r.url,
                                                     saved_path |-> r.saved_path] >>]

\* the script ends
M_Close ==
    /\ store.pc = "open"
    /\ store' = StoreClosed

InitSchema ==
    /\ Init
    /\ download_workers = DOWNLOAD_WORKERS
    /\ thumbs_by_page = [p \in {1} |-> << 1 >>]
    /\ pages = << 1 >>

NextSchema ==
    /\ \/ \E f \in StoreFiles : M_Open(f)
       \/ \E a \in LedgerArgs : M_Insert(a)
       \/ \E md5 \in {NoMd5, 1} : M_Find(md5)
       \/ M_Close
    /\ UNCHANGED << download_workers, invocations, run, thumbs_by_page, db, files,
                    failed_log, stats, all_tasks, task_q, unfinished, pc, cur, res, dup,
                    put_i, put_attempt, retry_list, retry_i, retry_attempt, terminal,
                    gets, lookups, prev, last_insert, xfer, pages, transfers, gen, plock,
                    timeouts, single >>

SpecSchema == InitSchema /\ [][NextSchema]_vars

\* the five fields an earlier version wrote are the same in q and r
SameRecord(q, r) == \A c \in BaseColumns : q[c] = r[c]
Opened == store.pc = "open"

\* C32: opening the ledger on a store written before the content-hash field
\* existed adds the field and keeps every record (url, saved_path, status,
\* size, timestamp); afterwards insert and find_by_md5 work on the store: an
\* insert replaces or adds the row of its url only, and find_by_md5 answers
\* with a row of that hash exactly when there is one.
C32_MigrationKeepsRecords ==
    Opened =>
        /\ Md5Column \in store.columns
        /\ \A q \in store.rows : DOMAIN q = store.columns
        /\ \A r \in store.old :
              r.url \notin DOMAIN store.inserted =>
                 \E q \in store.rows :
                    /\ SameRecord(q, r)
                    /\ q.md5 = IF Md5Column \in DOMAIN r THEN r.md5 ELSE NoMd5
        /\ \A u \in DOMAIN store.inserted :
              {q \in store.rows : q.url = u} = {InsertedRow(store.inserted[u])}
        /\ Cardinality(store.rows) =
              Cardinality({r.url : r \in store.old} \cup DOMAIN store.inserted)
        /\ \A k \in DOMAIN store.found :
              LET a == store.found[k]
              IN IF a.hit
                 THEN \E q \in store.rows :
                         q.md5 = a.md5 /\ q.url = a.url /\ q.saved_path = a.saved_path
                 ELSE \A q \in store.rows : q.md5 # a.md5

\* C32 witness: a store of the earlier format with two records was opened, one
\* record was replaced by an insert with a hash, the other is as it was, and
\* find_by_md5 found the new row
C32_OldStoreInUse ==
    /\ Opened
    /\ Cardinality(store.old) = 2
    /\ \A r \in store.old : Md5Column \notin DOMAIN r
    /\ Cardinality(DOMAIN store.inserted) = 1
    /\ store.found # << >>
    /\ store.found[1].hit

\* ======================================================================
\* The queue's unfinished-task count
\* ======================================================================
\* worker w has taken a task from the queue and has not left its finally clause
Holding(w) == pc[w] \notin {"idle", "get", "exited", "dead"}
\* tasks put on the queue and not fully processed
Unprocessed == Len(task_q) + Cardinality({w \in Workers : Holding(w)})
\* task_q.join() has returned
Joined == pc[Coord] \in {"retry", "r_download", "r_next", "done"} \/ Recording(Coord)

\* C33: every task taken from the queue is marked done exactly once, whatever
\* branch of the worker loop it takes: the queue's unfinished-task count is
\* the number of tasks put and not yet fully processed, and join() has
\* returned only when no task is left on the queue or in a worker.
C33_UnfinishedCountExact ==
    /\ unfinished = Unprocessed
    /\ Joined /\ all_tasks # << >> => Unprocessed = 0

\* ======================================================================
\* One source per file
\* ======================================================================
\* all bytes of the file come from the content of one URL
OneSource(f) == \A i, j \in 1..Len(f.bytes) : f.bytes[i].src = f.bytes[j].src
\* the call has put a file at the destination
PublishedByCall == xfer.pc # "idle" /\ xfer.dest.present /\ xfer.dest # OldFile

\* C34: every file published at a destination path consists of bytes of one
\* source URL: a transfer that resumes by appending to the staging file appends
\* bytes of the URL the staging file's bytes came from, also when
\* download_with_backoff has gone from the primary URL to its
\* alternate-extension counterpart.
C34_OneSourcePerFile ==
    /\ OneSource(xfer.tmp)
    /\ PublishedByCall => OneSource(xfer.dest)

\* ======================================================================
\* The start of the retry pass
\* ======================================================================
\* retry_failed_urls_after_main_loop is about to read FAILED_LOG
ReadingLog == pc[Coord] = "retry"
\* worker w is inside download_with_backoff or before its append to FAILED_LOG
StillTransferring(w) == pc[w] \in {"download", "log_failed"}
\* worker w holds a task whose outcome is not counted yet
BeforeOutcome(w) ==
    \/ StillTransferring(w) \/ Recording(w)
    \/ pc[w] \in {"exists", "skip_inc", "inc_success", "inc_failed", "except"}

\* C35: the retry pass starts only after every task put on the queue has
\* reached its terminal outcome: when the pass reads the failure log no task
\* is on the queue, no worker is transferring a task or about to append to
\* the failure log, and none holds a task that is not counted yet.
C35_RetryAfterAllOutcomes ==
    ReadingLog =>
        /\ task_q = << >>
        /\ \A w \in Workers : ~StillTransferring(w) /\ ~BeforeOutcome(w)

\* ======================================================================
\* The single-page script (src/Pixiv下载器.py)
\* ======================================================================
\* the list positions a range can name, the runs on one tag, the works shown
MaxItems == 2
MaxSingleRuns == 2
SingleWorks == 1..2

\* the src of the img element at a list position: an img-master thumbnail
\* .../img/<w>_p0_master1200.jpg, an address without _p0, or an empty src
ThumbForms == {"master", "plain", "empty"}
PageItems == [w : SingleWorks, form : ThumbForms]
\* the list of the tag's page as the browser shows it in one run
SinglePages == UNION {[1..n -> PageItems] : n \in 1..MaxItems}

\* to_original_url of the script: https://i.pximg.net/img-original/img/<w>_p0.jpg
\* when the address has an .../img/<w>_p0 part, the address itself otherwise
OriginalOfThumb(t) ==
    IF t.form = "master"
    THEN [kind |-> "url", host |-> "img-original", w |-> t.w, ext |-> "jpg"]
    ELSE [kind |-> "url", host |-> "thumb", w |-> t.w, ext |-> "png"]

\* alt_url = url.replace('.jpg', '.png')
AltOfUrl(u) == [u EXCEPT !.ext = "png"]

\* os.path.join(save_dir, f"{page_num}_{seq}_{safe_author}.jpg"); the author
\* of a work is taken to be the work's number
SingleFilename(seq, w) ==
    [kind |-> "path", dir |-> "tag", page |-> 1, seq |-> seq, author |-> w, ext |-> "jpg"]

\* read_downloaded_images: set(f.read().splitlines()), set() without the file
read_downloaded_images(lines) == {lines[k] : k \in DOMAIN lines}

\* is_image_downloaded: image_path in downloaded_images
is_image_downloaded(image_path, downloaded_images) == image_path \in downloaded_images

\* write_downloaded_image: the file opened in 'a', image_path + '\n' written
write_downloaded_image(lines, image_path) == Append(lines, image_path)

\* download_image_silent(url, filename, headers) against a server that answers
\* 200 with content for the addresses in served: the address whose content is
\* written to filename, or NotSaved when the function returns False
NotSaved == [kind |-> "none"]
download_image_silent(url, served) ==
    IF url \in served THEN url
    ELSE IF url.ext = "jpg" /\ AltOfUrl(url) \in served THEN AltOfUrl(url)
    ELSE NotSaved

\* main() up to the loop: the range is read, downloaded_images.txt is loaded,
\* seen = set(), seq = start
S_Main(page, start, end) ==
    /\ single.pc \in {"idle", "done"}
    /\ single.run < MaxSingleRuns
    /\ single' = [single EXCEPT
                    !.pc = "loop", !.run = single.run + 1, !.page = page,
                    !.i = start, !.end = end, !.seq = start, !.seen = {},
                    !.downloaded_images = read_downloaded_images(single.record)]

\* one pass of `for i in range(start, end + 1)`
S_Item(served) ==
    /\ single.pc = "loop"
    /\ single.i <= single.end
    /\ LET i == single.i
           next == [single EXCEPT !.i = i + 1]
       IN IF i > Len(single.page) \/ single.page[i].form = "empty"
          THEN single' = next                \* no img element, or no src: continue
          ELSE LET orig_url == OriginalOfThumb(single.page[i])
                   filename == SingleFilename(single.seq, single.page[i].w)
                   got == download_image_silent(orig_url, served)
               IN IF \/ orig_url \in single.seen
                     \/ is_image_downloaded(orig_url, single.downloaded_images)
                  THEN single' = next
                  ELSE single' =
                         [next EXCEPT
                            !.seen = single.seen \cup {orig_url},
                            !.seq = single.seq + 1,
                            !.saved = IF got = NotSaved THEN single.saved
                                      ELSE [f \in DOMAIN single.saved \cup {filename} |->
                                              IF f = filename THEN got ELSE single.saved[f]],
                            !.fetched = Append(single.fetched,
                                               [run |-> single.run, url |-> orig_url,
                                                filename |-> filename, ok |-> got # NotSaved]),
                            !.record = write_downloaded_image(single.record, filename)]

\* the loop is over: tab.close() and the closing message
S_End ==
    /\ single.pc = "loop"
    /\ single.i > single.end
    /\ single' = [single EXCEPT !.pc = "done"]

SingleUrls ==
    {OriginalOfThumb(t) : t \in PageItems} \cup {AltOfUrl(OriginalOfThumb(t)) : t \in PageItems}

InitSingle ==
    /\ Init
    /\ download_workers = DOWNLOAD_WORKERS
    /\ pages = << 1 >>
    /\ thumbs_by_page = [p \in {1} |-> << 1 >>]

NextSingle ==
    /\ \/ \E page \in SinglePages : \E start \in 1..MaxItems : \E end \in start..MaxItems :
             S_Main(page, start, end)
       \/ \E served \in SUBSET SingleUrls : S_Item(served)
       \/ S_End
    /\ UNCHANGED << download_workers, invocations, run, thumbs_by_page, db, files,
                    failed_log, stats, all_tasks, task_q, unfinished, pc, cur, res, dup,
                    put_i, put_attempt, retry_list, retry_i, retry_attempt, terminal,
                    gets, lookups, prev, last_insert, xfer, pages, transfers, gen, plock,
                    timeouts, store >>

SpecSingle == InitSingle /\ [][NextSingle]_vars

\* the calls of download_image_silent so far, in order
Fetches == DOMAIN single.fetched
\* line k of downloaded_images.txt was written after call k
RecordedCall(k) == single.fetched[k]

\* C36: an image downloaded and recorded in one run is recognized in a later
\* run on the same tag and is not downloaded again, and an image whose
\* download failed is not recorded as downloaded: no address is fetched in
\* two runs when the first fetch succeeded, and every line of
\* downloaded_images.txt was written after a successful download.
C36_RecordedNotRefetched ==
    /\ \A a, b \in Fetches :
          single.fetched[a].run < single.fetched[b].run /\ single.fetched[a].ok
             => single.fetched[a].url # single.fetched[b].url
    /\ \A k \in DOMAIN single.record : RecordedCall(k).ok

====
